---- MODULE Spec2Model ----
(***************************************************************************)
(* A model of openclaw-audit-tui: the entry parser, the session            *)
(* aggregator, the global event merge of the useSessions hook and the      *)
(* per-session filter of the useFilter hook.                               *)
(***************************************************************************)
EXTENDS Integers, Sequences, FiniteSets, TLC

VARIABLES
    now,                \* Date.now(), in milliseconds
    fs,                 \* the session files: path -> [readable, entries]
    sessions,           \* useSessions: the sessions state
    allEvents,          \* useSessions: the allEvents state
    allEventsLoading,   \* useSessions: the allEventsLoading state
    allEventsLoadedRef, \* useSessions: allEventsLoadedRef.current
    isPreloadingRef,    \* useSessions: isPreloadingRef.current
    scans,              \* loadData / refresh / pollAllEvents awaiting their scan
    passes,             \* the merge passes in flight, each at its awaited loadSession
    nReq,               \* the number of user requests made so far
    lastCall,           \* what the latest preloadAllEvents call did
    lastDone,           \* the merge pass that published allEvents, with what it loaded
    line,               \* parser: the log line given to parseEntry
    parsed,             \* parser: what parseEntry returned for it
    reserialized,       \* parser: JSON.stringify of the parsed entry
    reparsed,           \* parser: what parseEntry returns for the re-serialized line
    sessionFile,        \* the lines of the session file the user opens
    currentSession,     \* useSessions: the currentSession state
    filterState,        \* useFilter: the filterState state
    advancedFilterState,\* useFilter: the advancedFilterState state
    filteredEntries,    \* useFilter: the memoized filteredEntries
    histogramEvents,    \* AllEventsViewer: the events prop
    histogramBuckets,   \* AllEventsViewer: the histogramBuckets prop
    histogram,          \* AllEventsViewer: the memoized histogram
    scopedAllEvents,    \* App: the memoized scopedAllEvents
    allEventsFilter,    \* App: the allEventsFilter state
    filteredAllEvents,  \* App: the memoized filteredAllEvents
    agentsRoot,         \* the agents directory on disk
    agents,             \* useSessions: the agents state
    sessionSummaries,   \* useSessions: the sessions state set by loadData
    isLoading,          \* useSessions: the isLoading state
    error,              \* useSessions: the error state
    pendingScan,        \* the loadData or refresh that awaits its scan
    sparkCounts,        \* AllEventsViewer: histogram.counts
    sparkWidth,         \* AllEventsViewer: the display width
    sparkRounding,      \* the column bounds whose double falls below a whole number
    sparkDone,          \* whether AllEventsViewer has rendered
    sparkline,          \* AllEventsViewer: the memoized expanded counts
    selecting,          \* the selectSession calls that await their loadSession, oldest first
    lastSelected,       \* the file of the session of the latest selectSession call
    nSelect,            \* the number of selectSession calls made so far
    view,               \* the view shown: sessions, entries or all-events
    focusPanel,         \* the panel of the sessions view that has the focus
    selectedAgentIndex, \* the agent selected in the sidebar
    selectedSessionIndex,\* the session selected in the session list
    selectedEntryIndex, \* the entry selected in the entries view
    allEventsSelectedIndex\* the event selected in the all-events view

mergeVars == <<now, fs, sessions, allEvents, allEventsLoading, allEventsLoadedRef,
               isPreloadingRef, scans, passes, nReq, lastCall, lastDone>>

parseVars == <<line, parsed, reserialized, reparsed>>

viewVars == <<sessionFile, currentSession, filterState, advancedFilterState,
              filteredEntries>>

histogramVars == <<histogramEvents, histogramBuckets, histogram>>

globalVars == <<scopedAllEvents, allEventsFilter, filteredAllEvents>>

scanVars == <<agentsRoot, agents, sessionSummaries, isLoading, error, pendingScan>>

sparkVars == <<sparkCounts, sparkWidth, sparkRounding, sparkDone, sparkline>>

selectVars == <<selecting, lastSelected, nSelect>>

navVars == <<view, focusPanel, selectedAgentIndex, selectedSessionIndex, selectedEntryIndex, allEventsSelectedIndex>>

nonMergeVars == <<parseVars, viewVars, histogramVars, globalVars, scanVars, sparkVars, selectVars, navVars>>
nonParseVars == <<mergeVars, viewVars, histogramVars, globalVars, scanVars, sparkVars, selectVars, navVars>>
nonViewVars == <<mergeVars, parseVars, histogramVars, globalVars, scanVars, sparkVars, selectVars, navVars>>
nonHistogramVars == <<mergeVars, parseVars, viewVars, globalVars, scanVars, sparkVars, selectVars, navVars>>
nonGlobalVars == <<mergeVars, parseVars, viewVars, histogramVars, scanVars, sparkVars, selectVars, navVars>>
nonScanVars == <<mergeVars, parseVars, viewVars, histogramVars, globalVars, sparkVars, selectVars, navVars>>
nonSparkVars == <<mergeVars, parseVars, viewVars, histogramVars, globalVars, scanVars, selectVars, navVars>>
nonSelectVars == <<mergeVars, parseVars, viewVars, histogramVars, globalVars, scanVars, sparkVars, navVars>>
nonNavVars == <<mergeVars, parseVars, viewVars, histogramVars, globalVars, scanVars, sparkVars, selectVars>>

vars == <<mergeVars, parseVars, viewVars, histogramVars, globalVars, scanVars, sparkVars, selectVars, navVars>>

(***************************************************************************)
(* Bounds of the model.                                                    *)
(***************************************************************************)
MaxRequests == 2
MaxTicks == 1
MaxBlocks == 2
MaxLines == 2

(***************************************************************************)
(* Time.  new Date(s).getTime() is NaN for a string that is no date.       *)
(***************************************************************************)
NaN == -2000000000
FiveMinutes == 5 * 60 * 1000
Now0 == 1200000
TickMs == 120000

DateGetTime(s) ==
    CASE s = "1970-01-01T00:10:00Z"     -> 600000
      [] s = "1970-01-01T00:10:00.000Z" -> 600000
      [] s = "1970-01-01T00:15:00Z"     -> 900000
      [] s = "1970-01-01T00:26:00Z"     -> 1560000
      [] s = "1970-01-01T00:30:00Z"     -> 1800000
      [] s = "1970-01-01T00:02:00Z"     -> 120000
      [] s = "1970-01-01T00:00:00Z"     -> 0
      [] s = "1969-12-31T23:50:00Z"     -> 0 - 600000
      [] s = "1970-01-01T00:59:59.999Z" -> 3599999
      [] s = "1970-01-01T01:00:00Z"     -> 3600000
      [] s = "1970-01-01T18:59:59.999Z" -> 68399999
      [] s = "1970-01-01T19:00:00Z"     -> 68400000
      [] s = "1970-01-01T23:59:59.999Z" -> 86399999
      [] s = "1970-01-02T00:00:00Z"     -> 86400000
      [] s = "1970-01-02T00:44:59.999Z" -> 89099999
      [] s = "1970-01-02T00:45:00Z"     -> 89100000
      [] s = "1970-01-02T01:00:00Z"     -> 90000000
      [] s = "1970-01-02T01:02:00Z"     -> 90120000
      [] OTHER                          -> NaN

NumberIsFinite(n) == n # NaN

(***************************************************************************)
(* JSON values, as JSON.parse gives them and JSON.stringify takes them.    *)
(* An object is a function from its keys; Undefined is what reading a      *)
(* missing property gives.                                                 *)
(***************************************************************************)
Undefined == [t |-> "undefined"]
JNull == [t |-> "null"]
JNum(n) == [t |-> "number", v |-> n]
JStr(str) == [t |-> "string", v |-> str]
JBool(b) == [t |-> "boolean", v |-> b]
JArr(seq) == [t |-> "array", v |-> seq]
JObj(f) == [t |-> "object", v |-> f]
EmptyObj == JObj(<<>>)

\* a thrown exception, as the result of an evaluation
Threw == [t |-> "throw"]
Pending == [t |-> "pending"]

\* null where a session or a summary is expected: what loadSessionSummary and
\* loadSession return for a file that cannot be read, and no current session
Null == [isNull |-> TRUE]

\* raw.key
Get(raw, key) ==
    IF raw.t = "object" /\ key \in DOMAIN raw.v THEN raw.v[key] ELSE Undefined

\* reading a property of null or undefined throws a TypeError
PropertyReadThrows(raw) == raw.t \in {"null", "undefined"}

\* Boolean(value)
Truthy(value) ==
    ~(value \in {Undefined, JNull, JBool(FALSE), JNum(0), JStr("")})

\* a log line: blank, text that is no JSON, or the JSON text of a value
BlankLine(text) == [kind |-> "blank", text |-> text]
GarbageLine(text) == [kind |-> "garbage", text |-> text]
JsonLine(value) == [kind |-> "json", value |-> value]

\* JSON.parse(line): the value, or a SyntaxError
JsonParse(ln) == IF ln.kind = "json" THEN ln.value ELSE Threw

\* JSON.stringify(value): a property whose value is undefined is left out
RECURSIVE StringifyValue(_)
StringifyValue(value) ==
    CASE value.t = "object" ->
           JObj([ k \in { key \in DOMAIN value.v : value.v[key] # Undefined } |->
                    StringifyValue(value.v[k]) ])
      [] value.t = "array" ->
           JArr([ i \in 1..Len(value.v) |->
                    IF value.v[i] = Undefined THEN JNull ELSE StringifyValue(value.v[i]) ])
      [] OTHER -> value

JsonStringify(value) == JsonLine(StringifyValue(value))

(***************************************************************************)
(* parser.ts: parseEntry and what it calls.                                *)
(***************************************************************************)
AsRecord(value) ==
    IF ~Truthy(value) \/ ~(value.t \in {"object", "array"}) THEN JNull ELSE value

AsString(value) == IF value.t = "string" THEN value ELSE JStr("")

\* asRecord(value) ?? {}
AsRecordOrEmpty(value) == IF AsRecord(value) = JNull THEN EmptyObj ELSE AsRecord(value)

\* asString(value) || undefined
AsStringOrUndefined(value) ==
    IF Truthy(AsString(value)) THEN AsString(value) ELSE Undefined

\* typeof value === "number" ? value : undefined
NumberOrUndefined(value) == IF value.t = "number" THEN value ELSE Undefined

\* the value taken as it is, whatever its type
NumberUnchecked(value) == value

\* typeof value === "number" ? value : 0
NumberOrZero(value) == IF value.t = "number" THEN value ELSE JNum(0)

NormalizeBase(raw) ==
    [ id |-> AsString(Get(raw, "id")),
      parentId |-> IF Get(raw, "parentId") = JNull \/ Get(raw, "parentId").t = "string"
                   THEN Get(raw, "parentId") ELSE JNull,
      timestamp |-> AsString(Get(raw, "timestamp")) ]

ParseContentBlock(block) ==
    LET type == AsString(Get(block, "type")).v
    IN  CASE type = "text" ->
               JObj([type |-> JStr("text"), text |-> AsString(Get(block, "text"))])
          [] type = "thinking" ->
               JObj([type |-> JStr("thinking"), text |-> AsString(Get(block, "text"))])
          [] type = "toolCall" ->
               JObj([ type |-> JStr("toolCall"), id |-> AsString(Get(block, "id")),
                      name |-> AsString(Get(block, "name")),
                      arguments |-> AsRecordOrEmpty(Get(block, "arguments")) ])
          [] type = "image" ->
               JObj([type |-> JStr("image"), source |-> Get(block, "source")])
          [] OTHER -> JObj([type |-> JStr("text"), text |-> JStr("")])

RecognizedBlockTypes == {"text", "thinking", "toolCall", "image"}

RECURSIVE MapSeq(_, _)
MapSeq(Op(_), seq) ==
    IF seq = <<>> THEN <<>> ELSE <<Op(Head(seq))>> \o MapSeq(Op, Tail(seq))

\* the content with the blocks of an unrecognized type dropped as well
ParseContentDroppingUnknown(contentRaw) ==
    MapSeq(ParseContentBlock,
           SelectSeq(MapSeq(AsRecord, contentRaw),
                     LAMBDA block : block # JNull
                        /\ AsString(Get(block, "type")).v \in RecognizedBlockTypes))

\* contentRaw.map(asRecord).filter(non-null).map(parseContentBlock)
ParseContent(contentRaw) ==
    MapSeq(ParseContentBlock,
           SelectSeq(MapSeq(AsRecord, contentRaw), LAMBDA block : block # JNull))

StatusValues == {"completed", "error", "running"}

ParseDetails(message) ==
    IF AsRecord(Get(message, "details")) # JNull
    THEN LET details == Get(message, "details")
         IN  JObj([ status |->
                      IF Truthy(details) /\ Truthy(Get(details, "status"))
                         /\ Get(details, "status").t = "string"
                         /\ Get(details, "status").v \in StatusValues
                      THEN Get(details, "status") ELSE JStr("completed"),
                    exitCode |-> NumberOrUndefined(Get(details, "exitCode")),
                    durationMs |-> NumberOrUndefined(Get(details, "durationMs")) ])
    ELSE Undefined

ParseUsage(message) ==
    IF AsRecord(Get(message, "usage")) # JNull
    THEN LET usage == Get(message, "usage")
         IN  JObj([ input |-> NumberOrZero(Get(usage, "input")),
                    output |-> NumberOrZero(Get(usage, "output")),
                    cacheRead |-> NumberOrZero(Get(usage, "cacheRead")),
                    cacheWrite |-> NumberOrZero(Get(usage, "cacheWrite")),
                    totalTokens |-> NumberOrZero(Get(usage, "totalTokens")) ])
    ELSE Undefined

ParseMessageEntry(raw) ==
    LET base == NormalizeBase(raw)
        message == AsRecordOrEmpty(Get(raw, "message"))
        roleRaw == AsString(Get(message, "role"))
        role == IF roleRaw.v = "assistant" \/ roleRaw.v = "toolResult"
                THEN roleRaw ELSE JStr("user")
        contentRaw == IF Get(message, "content").t = "array"
                      THEN Get(message, "content").v ELSE <<>>
    IN  JObj([ type |-> JStr("message"), id |-> base.id, parentId |-> base.parentId,
               timestamp |-> base.timestamp,
               message |-> JObj([
                   role |-> role,
                   content |-> JArr(ParseContent(contentRaw)),
                   api |-> AsStringOrUndefined(Get(message, "api")),
                   provider |-> AsStringOrUndefined(Get(message, "provider")),
                   model |-> AsStringOrUndefined(Get(message, "model")),
                   stopReason |-> AsStringOrUndefined(Get(message, "stopReason")),
                   toolCallId |-> AsStringOrUndefined(Get(message, "toolCallId")),
                   toolName |-> AsStringOrUndefined(Get(message, "toolName")),
                   details |-> ParseDetails(message),
                   isError |-> JBool(Truthy(Get(message, "isError"))),
                   usage |-> ParseUsage(message) ]) ])

ThinkingLevels == {"off", "low", "medium", "high"}

DiscriminateEntry(raw) ==
    IF PropertyReadThrows(raw) THEN Threw
    ELSE
    LET type == AsString(Get(raw, "type")).v
        base == NormalizeBase(raw)
    IN  CASE type = "session" ->
               JObj([ type |-> JStr("session"), id |-> base.id, parentId |-> base.parentId,
                      timestamp |-> base.timestamp,
                      version |-> NumberOrZero(Get(raw, "version")),
                      cwd |-> AsString(Get(raw, "cwd")) ])
          [] type = "model_change" ->
               JObj([ type |-> JStr("model_change"), id |-> base.id,
                      parentId |-> base.parentId, timestamp |-> base.timestamp,
                      provider |-> AsString(Get(raw, "provider")),
                      modelId |-> AsString(Get(raw, "modelId")) ])
          [] type = "thinking_level_change" ->
               JObj([ type |-> JStr("thinking_level_change"), id |-> base.id,
                      parentId |-> base.parentId, timestamp |-> base.timestamp,
                      thinkingLevel |->
                          IF Get(raw, "thinkingLevel").t = "string"
                             /\ Get(raw, "thinkingLevel").v \in ThinkingLevels
                          THEN Get(raw, "thinkingLevel") ELSE JStr("off") ])
          [] type = "custom" ->
               JObj([ type |-> JStr("custom"), id |-> base.id, parentId |-> base.parentId,
                      timestamp |-> base.timestamp,
                      customType |-> AsString(Get(raw, "customType")),
                      data |-> AsRecordOrEmpty(Get(raw, "data")) ])
          [] type = "compaction" ->
               JObj([ type |-> JStr("compaction"), id |-> base.id,
                      parentId |-> base.parentId, timestamp |-> base.timestamp,
                      summary |-> AsString(Get(raw, "summary")),
                      firstKeptEntryId |-> AsString(Get(raw, "firstKeptEntryId")),
                      tokensBefore |-> NumberOrZero(Get(raw, "tokensBefore")) ])
          [] type = "message" -> ParseMessageEntry(raw)
          [] OTHER -> JNull

\* the body of the try block of parseEntry
TryParse(ln) ==
    LET raw == JsonParse(ln)
    IN  IF raw = Threw THEN Threw ELSE DiscriminateEntry(raw)

\* parseEntry without its catch: what the try block throws goes to the caller
ParseEntryWithoutCatch(ln) ==
    IF ln.kind = "blank" THEN [value |-> JNull, logged |-> FALSE]
    ELSE [value |-> TryParse(ln), logged |-> FALSE]

\* returns the entry or null, and whether console.error was called
ParseEntry(ln) ==
    IF ln.kind = "blank" THEN [value |-> JNull, logged |-> FALSE]
    ELSE LET result == TryParse(ln)
         IN  IF result = Threw THEN [value |-> JNull, logged |-> TRUE]
             ELSE [value |-> result, logged |-> FALSE]

(***************************************************************************)
(* The lines given to the parser: well-formed lines of every entry type,   *)
(* the same lines with one or two fields missing or of another type, lines *)
(* with every content array up to MaxBlocks elements, and lines that are   *)
(* no entry at all.                                                        *)
(***************************************************************************)
RECURSIVE SetPath(_, _, _)
\* value with the property at path set to x, or removed when x is Undefined
SetPath(value, path, x) ==
    LET key == Head(path)
    IN  IF Len(path) = 1
        THEN IF x = Undefined
             THEN JObj([ k \in DOMAIN value.v \ {key} |-> value.v[k] ])
             ELSE JObj([ k \in DOMAIN value.v \cup {key} |->
                           IF k = key THEN x ELSE value.v[k] ])
        ELSE JObj([ k \in DOMAIN value.v |->
                      IF k = key THEN SetPath(value.v[k], Tail(path), x)
                      ELSE value.v[k] ])

RECURSIVE GetPath(_, _)
GetPath(value, path) ==
    IF path = <<>> THEN value ELSE GetPath(Get(value, Head(path)), Tail(path))

SessionLine ==
    JObj([ type |-> JStr("session"), id |-> JStr("s-1"), parentId |-> JNull,
           timestamp |-> JStr("2026-02-25T10:00:00Z"), version |-> JNum(3),
           cwd |-> JStr("/work") ])

ModelChangeLine ==
    JObj([ type |-> JStr("model_change"), id |-> JStr("m-1"), parentId |-> JStr("s-1"),
           timestamp |-> JStr("2026-02-25T10:00:01Z"), provider |-> JStr("anthropic"),
           modelId |-> JStr("model-a") ])

ThinkingLevelLine ==
    JObj([ type |-> JStr("thinking_level_change"), id |-> JStr("t-1"),
           parentId |-> JStr("m-1"), timestamp |-> JStr("2026-02-25T10:00:02Z"),
           thinkingLevel |-> JStr("high") ])

CustomLine ==
    JObj([ type |-> JStr("custom"), id |-> JStr("c-1"), parentId |-> JStr("t-1"),
           timestamp |-> JStr("2026-02-25T10:00:03Z"), customType |-> JStr("model-snapshot"),
           data |-> JObj([k |-> JNum(1)]) ])

CompactionLine ==
    JObj([ type |-> JStr("compaction"), id |-> JStr("x-1"), parentId |-> JStr("c-1"),
           timestamp |-> JStr("2026-02-25T10:00:04Z"), summary |-> JStr("so far"),
           firstKeptEntryId |-> JStr("e-9"), tokensBefore |-> JNum(1200),
           details |-> JObj([ readFiles |-> JArr(<<JStr("a.ts")>>),
                              modifiedFiles |-> JArr(<<>>) ]) ])

TextBlock == JObj([type |-> JStr("text"), text |-> JStr("hello")])
ThinkingBlock == JObj([type |-> JStr("thinking"), text |-> JStr("hmm")])
ToolCallBlock ==
    JObj([ type |-> JStr("toolCall"), id |-> JStr("call-1"), name |-> JStr("bash"),
           arguments |-> JObj([command |-> JStr("ls")]) ])
ImageBlock == JObj([type |-> JStr("image"), source |-> JObj([data |-> JStr("png")])])

AssistantLine ==
    JObj([ type |-> JStr("message"), id |-> JStr("a-1"), parentId |-> JStr("u-1"),
           timestamp |-> JStr("2026-02-25T10:00:05Z"),
           message |-> JObj([
               role |-> JStr("assistant"),
               content |-> JArr(<<TextBlock, ToolCallBlock>>),
               api |-> JStr("messages"), provider |-> JStr("anthropic"),
               model |-> JStr("model-a"), stopReason |-> JStr("toolUse"),
               usage |-> JObj([ input |-> JNum(10), output |-> JNum(20),
                                cacheRead |-> JNum(30), cacheWrite |-> JNum(40),
                                totalTokens |-> JNum(100),
                                cost |-> JObj([ input |-> JNum(1), output |-> JNum(2),
                                                cacheRead |-> JNum(3), cacheWrite |-> JNum(4),
                                                total |-> JNum(10) ]) ]) ]) ])

ToolResultLine ==
    JObj([ type |-> JStr("message"), id |-> JStr("r-1"), parentId |-> JStr("a-1"),
           timestamp |-> JStr("2026-02-25T10:00:06Z"),
           message |-> JObj([
               role |-> JStr("toolResult"),
               content |-> JArr(<<TextBlock>>),
               toolCallId |-> JStr("call-1"), toolName |-> JStr("bash"),
               details |-> JObj([ status |-> JStr("error"), exitCode |-> JNum(2),
                                  durationMs |-> JNum(50) ]),
               isError |-> JBool(TRUE) ]) ])

WellFormedLines ==
    { SessionLine, ModelChangeLine, ThinkingLevelLine, CustomLine, CompactionLine,
      AssistantLine, ToolResultLine }

BasePaths == { <<"type">>, <<"id">>, <<"parentId">>, <<"timestamp">> }

\* the fields of a well-formed line that hold one value
LeafPaths(base) ==
    BasePaths \cup
    CASE base = SessionLine -> { <<"version">>, <<"cwd">> }
      [] base = ModelChangeLine -> { <<"provider">>, <<"modelId">> }
      [] base = ThinkingLevelLine -> { <<"thinkingLevel">> }
      [] base = CustomLine -> { <<"customType">>, <<"data">> }
      [] base = CompactionLine ->
           { <<"summary">>, <<"firstKeptEntryId">>, <<"tokensBefore">> }
      [] base = AssistantLine ->
           { <<"message", "role">>, <<"message", "content">>, <<"message", "api">>,
             <<"message", "provider">>, <<"message", "model">>,
             <<"message", "stopReason">>, <<"message", "isError">>,
             <<"message", "usage", "input">>, <<"message", "usage", "output">>,
             <<"message", "usage", "cacheRead">>, <<"message", "usage", "cacheWrite">>,
             <<"message", "usage", "totalTokens">> }
      [] base = ToolResultLine ->
           { <<"message", "role">>, <<"message", "toolCallId">>,
             <<"message", "toolName">>, <<"message", "isError">>,
             <<"message", "details", "status">>, <<"message", "details", "exitCode">>,
             <<"message", "details", "durationMs">> }

\* the fields that hold a sub-object
InnerPaths(base) ==
    CASE base = AssistantLine -> { <<"message">>, <<"message", "usage">> }
      [] base = ToolResultLine -> { <<"message">>, <<"message", "details">> }
      [] OTHER -> {}

WrongValues ==
    { Undefined, JNull, JNum(0), JNum(7), JStr(""), JStr("zz"), JBool(TRUE), JBool(FALSE),
      JArr(<<>>), EmptyObj }

FewWrongValues == { Undefined, JNum(7), JStr("zz") }

OneFieldChanged ==
    UNION { { SetPath(base, path, x) : path \in LeafPaths(base) \cup InnerPaths(base),
                                       x \in WrongValues } : base \in WellFormedLines }

TwoFieldsChanged ==
    UNION { { SetPath(SetPath(base, pq[1], xy[1]), pq[2], xy[2]) :
                pq \in { r \in LeafPaths(base) \X LeafPaths(base) : r[1] # r[2] },
                xy \in FewWrongValues \X FewWrongValues } : base \in WellFormedLines }

BlockPool ==
    { TextBlock, ThinkingBlock, ToolCallBlock, ImageBlock,
      JObj([type |-> JStr("audio"), text |-> JStr("la")]), EmptyObj,
      JNull, JNum(7), JStr("text"), JArr(<<TextBlock>>) }

SeqsUpTo(S, n) == UNION { [1..m -> S] : m \in 0..n }

ContentChanged ==
    { SetPath(AssistantLine, <<"message", "content">>, JArr(c)) :
        c \in SeqsUpTo(BlockPool, MaxBlocks) }

NoEntryLines ==
    { BlankLine(""), BlankLine("   "), GarbageLine("{oops"), GarbageLine("session"),
      JsonLine(JNull), JsonLine(JNum(5)), JsonLine(JStr("session")), JsonLine(JBool(TRUE)),
      JsonLine(JArr(<<>>)), JsonLine(JArr(<<SessionLine>>)), JsonLine(EmptyObj),
      JsonLine(SetPath(SessionLine, <<"type">>, JStr("Session"))),
      JsonLine(SetPath(AssistantLine, <<"type">>, JStr("tool_use"))) }

LineInputs ==
    NoEntryLines \cup
    { JsonLine(v) : v \in WellFormedLines \cup OneFieldChanged \cup TwoFieldsChanged
                          \cup ContentChanged }

(***************************************************************************)
(* The parser at work: a line is parsed, the entry is serialized again,    *)
(* and the serialized line is parsed.                                      *)
(***************************************************************************)
ParseLine ==
    /\ parsed = Pending
    /\ parsed' = ParseEntry(line)
    /\ UNCHANGED <<line, reserialized, reparsed>>
    /\ UNCHANGED nonParseVars

Reserialize ==
    /\ parsed # Pending
    /\ parsed.value # JNull
    /\ reserialized = Pending
    /\ reserialized' = JsonStringify(parsed.value)
    /\ UNCHANGED <<line, parsed, reparsed>>
    /\ UNCHANGED nonParseVars

ParseAgain ==
    /\ reserialized # Pending
    /\ reparsed = Pending
    /\ reparsed' = ParseEntry(reserialized)
    /\ UNCHANGED <<line, parsed, reserialized>>
    /\ UNCHANGED nonParseVars

ParseInit ==
    /\ line \in LineInputs
    /\ parsed = Pending
    /\ reserialized = Pending
    /\ reparsed = Pending

ParseIdle ==
    /\ line = BlankLine("")
    /\ parsed = Pending
    /\ reserialized = Pending
    /\ reparsed = Pending

ParseNext == ParseLine \/ Reserialize \/ ParseAgain

(***************************************************************************)
(* utils.ts: strings, read a character at a time.                          *)
(***************************************************************************)
CharAt(str, i) == SubSeq(str, i, i)

UpperCaseLetters == "ABCDEFGHIJKLMNOPQRSTUVWXYZ"
LowerCaseLetters == "abcdefghijklmnopqrstuvwxyz"

\* the lower-case letter of every upper-case letter
LowerOf ==
    [ c \in { CharAt(UpperCaseLetters, i) : i \in 1..Len(UpperCaseLetters) } |->
        CharAt(LowerCaseLetters,
               CHOOSE i \in 1..Len(UpperCaseLetters) : CharAt(UpperCaseLetters, i) = c) ]

LowerChar(c) == IF c \in DOMAIN LowerOf THEN LowerOf[c] ELSE c

RECURSIVE ToLowerCase(_)
\* str.toLowerCase(), a half of the string at a time
ToLowerCase(str) ==
    IF Len(str) = 0 THEN ""
    ELSE IF Len(str) = 1 THEN LowerChar(str)
    ELSE ToLowerCase(SubSeq(str, 1, Len(str) \div 2))
             \o ToLowerCase(SubSeq(str, Len(str) \div 2 + 1, Len(str)))

\* str.trim()
Trim(str) ==
    LET inked == { i \in 1..Len(str) : CharAt(str, i) # " " }
    IN  IF inked = {} THEN ""
        ELSE SubSeq(str, CHOOSE i \in inked : \A j \in inked : i <= j,
                         CHOOSE i \in inked : \A j \in inked : i >= j)

\* hay.includes(needle)
Includes(hay, needle) ==
    \/ needle = ""
    \/ \E i \in 1..(Len(hay) - Len(needle) + 1) :
         SubSeq(hay, i, i + Len(needle) - 1) = needle

\* hay.startsWith(prefix)
StartsWith(hay, prefix) ==
    \/ prefix = ""
    \/ Len(hay) >= Len(prefix) /\ SubSeq(hay, 1, Len(prefix)) = prefix

RECURSIVE Join(_, _)
\* strings.join(separator)
Join(strings, separator) ==
    IF strings = <<>> THEN ""
    ELSE IF Len(strings) = 1 THEN Head(strings)
    ELSE Head(strings) \o separator \o Join(Tail(strings), separator)

RECURSIVE FuzzyFrom(_, _, _, _)
FuzzyFrom(text, i, query, j) ==
    IF j > Len(query) THEN TRUE
    ELSE LET hits == { k \in i..Len(text) :
                         LowerChar(CharAt(text, k)) = LowerChar(CharAt(query, j)) }
         IN  /\ hits # {}
             /\ FuzzyFrom(text, (CHOOSE k \in hits : \A h \in hits : k <= h) + 1, query, j + 1)

\* fuzzyMatch(text, query): every character of the query appears in the text,
\* in order and whatever its case; the empty query matches
FuzzyMatch(text, query) == FuzzyFrom(text, 1, query, 1)

FileTools == <<"read", "write", "edit", "notebookedit">>
SearchTools == <<"glob", "grep", "rg">>
ExecTools == <<"bash", "exec", "run_background", "check_background">>
WebTools == <<"websearch", "webfetch", "web_search", "web_fetch", "http">>
SubagentTools == <<"task", "sessions_spawn", "sessions_list", "sessions_history",
                   "delegate_task", "call_agent">>
McpTools == <<"mcp__">>

\* tools.some((t) => normalized.includes(t))
SomeIncluded(tools, normalized) ==
    \E k \in DOMAIN tools : Includes(normalized, tools[k])

GetToolCategory(toolName) ==
    LET normalized == ToLowerCase(toolName)
    IN  IF SomeIncluded(FileTools, normalized) THEN "file"
        ELSE IF SomeIncluded(SearchTools, normalized) THEN "search"
        ELSE IF SomeIncluded(ExecTools, normalized) THEN "exec"
        ELSE IF SomeIncluded(WebTools, normalized) THEN "web"
        ELSE IF SomeIncluded(SubagentTools, normalized) THEN "subagent"
        ELSE IF \E k \in DOMAIN McpTools : StartsWith(normalized, McpTools[k]) THEN "mcp"
        ELSE "other"

(***************************************************************************)
(* session-loader: parseJsonlContent, calculateStats and the session that  *)
(* loadSession builds from the lines of a file.                            *)
(***************************************************************************)
RECURSIVE ParseJsonlContent(_)
ParseJsonlContent(lines) ==
    IF lines = <<>> THEN <<>>
    ELSE LET entry == ParseEntry(Head(lines)).value
         IN  (IF Truthy(entry) THEN <<entry>> ELSE <<>>)
                 \o ParseJsonlContent(Tail(lines))

ZeroStats ==
    [ totalTokens |-> 0, inputTokens |-> 0, outputTokens |-> 0, messageCount |-> 0,
      userMessages |-> 0, assistantMessages |-> 0, toolCalls |-> 0, toolResults |-> 0,
      errors |-> 0 ]

\* value || 0
OrZero(value) == IF Truthy(value) THEN value.v ELSE 0

IsToolCall(block) == Get(block, "type") = JStr("toolCall")

\* the loop body of calculateStats, with the tool calls of every message counted
StatsAfterEntryCountingEveryCall(stats, entry) ==
    IF Get(entry, "type") # JStr("message") THEN stats
    ELSE
    LET message == Get(entry, "message")
        role == Get(message, "role").v
        usage == Get(message, "usage")
        counted == [ stats EXCEPT
                       !.messageCount = @ + 1,
                       !.toolCalls = @ + Len(SelectSeq(Get(message, "content").v,
                                                       IsToolCall)) ]
    IN  IF role = "user" THEN [counted EXCEPT !.userMessages = @ + 1]
        ELSE IF role = "assistant"
        THEN [ counted EXCEPT
                 !.assistantMessages = @ + 1,
                 !.inputTokens = @ + OrZero(Get(usage, "input")),
                 !.outputTokens = @ + OrZero(Get(usage, "output")),
                 !.totalTokens = @ + OrZero(Get(usage, "totalTokens")) ]
        ELSE [ counted EXCEPT
                 !.toolResults = @ + 1,
                 !.errors = @ + (IF Truthy(Get(message, "isError")) THEN 1 ELSE 0) ]

\* the body of the loop of calculateStats
StatsAfterEntry(stats, entry) ==
    IF Get(entry, "type") # JStr("message") THEN stats
    ELSE
    LET message == Get(entry, "message")
        role == Get(message, "role").v
        usage == Get(message, "usage")
        counted == [stats EXCEPT !.messageCount = @ + 1]
    IN  IF role = "user" THEN [counted EXCEPT !.userMessages = @ + 1]
        ELSE IF role = "assistant"
        THEN LET toolCalls == SelectSeq(Get(message, "content").v, IsToolCall)
                 withCalls == [ counted EXCEPT !.assistantMessages = @ + 1,
                                               !.toolCalls = @ + Len(toolCalls) ]
             IN  IF Truthy(usage)
                 THEN [ withCalls EXCEPT
                          !.inputTokens = @ + OrZero(Get(usage, "input")),
                          !.outputTokens = @ + OrZero(Get(usage, "output")),
                          !.totalTokens = @ + OrZero(Get(usage, "totalTokens")) ]
                 ELSE withCalls
        ELSE IF role = "toolResult"
        THEN [ counted EXCEPT
                 !.toolResults = @ + 1,
                 !.errors = @ + (IF Truthy(Get(message, "isError")) THEN 1 ELSE 0) ]
        ELSE counted

RECURSIVE StatsFold(_, _)
StatsFold(stats, entries) ==
    IF entries = <<>> THEN stats
    ELSE StatsFold(StatsAfterEntry(stats, Head(entries)), Tail(entries))

CalculateStats(entries) == StatsFold(ZeroStats, entries)

\* the entries and the stats of the session loadSession returns
LoadSessionContent(lines) ==
    LET entries == ParseJsonlContent(lines)
    IN  [entries |-> entries, stats |-> CalculateStats(entries)]

(***************************************************************************)
(* The lines of the session files the user opens.                          *)
(***************************************************************************)
ReadCallBlock ==
    JObj([ type |-> JStr("toolCall"), id |-> JStr("call-2"), name |-> JStr("Read"),
           arguments |-> JObj([path |-> JStr("a.ts")]) ])

\* an assistant message that calls bash and Read and says nothing
TwoCallsLine ==
    JObj([ type |-> JStr("message"), id |-> JStr("a-2"), parentId |-> JStr("u-2"),
           timestamp |-> JStr("2026-02-25T10:00:08Z"),
           message |-> JObj([
               role |-> JStr("assistant"),
               content |-> JArr(<<ToolCallBlock, ReadCallBlock>>),
               usage |-> JObj([ input |-> JNum(10), output |-> JNum(20),
                                totalTokens |-> JNum(100) ]) ]) ])

\* a user message that holds what assistant messages and tool results hold:
\* a tool call, usage and the error flag
UserWithCallLine ==
    JObj([ type |-> JStr("message"), id |-> JStr("u-2"), parentId |-> JNull,
           timestamp |-> JStr("2026-02-25T10:00:07Z"),
           message |-> JObj([
               role |-> JStr("user"),
               content |-> JArr(<<TextBlock, ToolCallBlock>>),
               usage |-> JObj([ input |-> JNum(10), output |-> JNum(20),
                                totalTokens |-> JNum(100) ]),
               isError |-> JBool(TRUE) ]) ])

\* the result of a bash call that failed
FailedResultLine ==
    JObj([ type |-> JStr("message"), id |-> JStr("r-2"), parentId |-> JStr("a-2"),
           timestamp |-> JStr("2026-02-25T10:00:09Z"),
           message |-> JObj([
               role |-> JStr("toolResult"), content |-> JArr(<<TextBlock>>),
               toolName |-> JStr("bash"), isError |-> JBool(TRUE) ]) ])

SessionFileLines ==
    { JsonLine(TwoCallsLine), JsonLine(FailedResultLine), JsonLine(UserWithCallLine),
      JsonLine(ModelChangeLine) }

\* a file of up to MaxLines lines, each ended by a newline: split("\n") gives
\* the lines and a blank last one
SessionFiles == { lines \o <<BlankLine("")>> : lines \in SeqsUpTo(SessionFileLines, MaxLines) }

(***************************************************************************)
(* useFilter: the filter passes of filteredEntries, in the order of the    *)
(* code.  Each pass takes the result of the passes before it.              *)
(***************************************************************************)
IsMessage(entry) == Get(entry, "type") = JStr("message")

RoleOf(entry) == Get(Get(entry, "message"), "role").v

ContentOf(entry) == Get(Get(entry, "message"), "content").v

\* value || "" and value ?? "", for a string or undefined
OrEmpty(value) == IF Truthy(value) THEN value.v ELSE ""

EntryTypeMatches(entry, entryType) ==
    IF ~IsMessage(entry) THEN entryType = "system"
    ELSE IF entryType = "user" THEN RoleOf(entry) = "user"
    ELSE IF entryType = "assistant" THEN RoleOf(entry) = "assistant"
    ELSE IF entryType = "tool" THEN RoleOf(entry) = "toolResult"
    ELSE TRUE

ByEntryType(result, fState) ==
    IF fState.entryType # "all"
    THEN SelectSeq(result, LAMBDA entry : EntryTypeMatches(entry, fState.entryType))
    ELSE result

SearchMatches(entry, query) ==
    /\ IsMessage(entry)
    /\ LET texts == MapSeq(LAMBDA b : OrEmpty(Get(b, "text")),
                           SelectSeq(ContentOf(entry),
                                     LAMBDA b : Get(b, "type") = JStr("text")))
           textContent == ToLowerCase(Join(texts, " "))
           toolCalls == MapSeq(LAMBDA b : OrEmpty(Get(b, "name")),
                               SelectSeq(ContentOf(entry), IsToolCall))
       IN  \/ FuzzyMatch(textContent, query)
           \/ \E k \in DOMAIN toolCalls : FuzzyMatch(ToLowerCase(toolCalls[k]), query)

BySearchQuery(result, fState) ==
    IF fState.searchQuery # ""
    THEN SelectSeq(result,
                   LAMBDA entry : SearchMatches(entry, ToLowerCase(fState.searchQuery)))
    ELSE result

RoleMatches(entry, role) == IsMessage(entry) /\ RoleOf(entry) = role

ByRole(result, aState) ==
    IF aState.role # "all"
    THEN SelectSeq(result, LAMBDA entry : RoleMatches(entry, aState.role))
    ELSE result

ErrorMatches(entry) ==
    /\ IsMessage(entry)
    /\ RoleOf(entry) = "toolResult"
    /\ Truthy(Get(Get(entry, "message"), "isError"))

\* the errors pass, leaving the result as it is when no entry of it is an error
ByOnlyErrorsIfAny(result, aState) ==
    IF aState.onlyErrors /\ SelectSeq(result, ErrorMatches) # <<>>
    THEN SelectSeq(result, ErrorMatches) ELSE result

ByOnlyErrors(result, aState) ==
    IF aState.onlyErrors THEN SelectSeq(result, ErrorMatches) ELSE result

\* the tool-category test that classifies the tool calls of assistant messages
\* only, and no tool result
ToolCategoryMatchesCallsOnly(entry, toolCategory) ==
    /\ IsMessage(entry)
    /\ RoleOf(entry) = "assistant"
    /\ \E k \in DOMAIN ContentOf(entry) :
         /\ IsToolCall(ContentOf(entry)[k])
         /\ GetToolCategory(Get(ContentOf(entry)[k], "name").v) = toolCategory

ToolCategoryMatches(entry, toolCategory) ==
    /\ IsMessage(entry)
    /\ IF RoleOf(entry) = "assistant"
       THEN \E k \in DOMAIN ContentOf(entry) :
              /\ IsToolCall(ContentOf(entry)[k])
              /\ GetToolCategory(Get(ContentOf(entry)[k], "name").v) = toolCategory
       ELSE IF RoleOf(entry) = "toolResult"
       THEN GetToolCategory(OrEmpty(Get(Get(entry, "message"), "toolName"))) = toolCategory
       ELSE FALSE

ByToolCategory(result, aState) ==
    IF aState.toolCategory # "all"
    THEN SelectSeq(result, LAMBDA entry : ToolCategoryMatches(entry, aState.toolCategory))
    ELSE result

ToolNameMatches(entry, toolNeedle) ==
    /\ IsMessage(entry)
    /\ IF RoleOf(entry) = "assistant"
       THEN \E k \in DOMAIN ContentOf(entry) :
              /\ IsToolCall(ContentOf(entry)[k])
              /\ FuzzyMatch(ToLowerCase(Get(ContentOf(entry)[k], "name").v), toolNeedle)
       ELSE IF RoleOf(entry) = "toolResult"
       THEN FuzzyMatch(ToLowerCase(OrEmpty(Get(Get(entry, "message"), "toolName"))),
                       toolNeedle)
       ELSE FALSE

ByToolName(result, aState) ==
    IF Trim(aState.toolNameQuery) # ""
    THEN SelectSeq(result,
                   LAMBDA entry : ToolNameMatches(entry, ToLowerCase(aState.toolNameQuery)))
    ELSE result

\* the body of the useMemo of filteredEntries
FilteredEntries(entries, fState, aState) ==
    ByToolName(
      ByToolCategory(
        ByOnlyErrors(
          ByRole(BySearchQuery(ByEntryType(entries, fState), fState), aState),
          aState),
        aState),
      aState)

(***************************************************************************)
(* The open session and its filter: the user opens and closes the session  *)
(* and sets the facets; every change renders filteredEntries again.        *)
(***************************************************************************)
EntryTypeFilters == {"all", "user", "assistant", "tool", "system"}
SearchQueries == {"", "HL"}
RoleFilters == {"all", "toolResult"}
ToolCategoryFilters == {"all", "exec"}
ToolNameQueries == {"", " ", "bs"}

DefaultFilterState == [entryType |-> "all", searchQuery |-> ""]

DefaultAdvancedFilterState ==
    [toolCategory |-> "all", toolNameQuery |-> "", onlyErrors |-> FALSE, role |-> "all"]

\* currentSession?.entries || []
EntriesOf(session) == IF session = Null THEN <<>> ELSE session.entries

\* { ...prev, ...update }
Spread(prev, update) ==
    [ k \in DOMAIN prev |-> IF k \in DOMAIN update THEN update[k] ELSE prev[k] ]

\* the render after a change of the session or of a facet
Render(session, fState, aState) ==
    /\ currentSession' = session
    /\ filterState' = fState
    /\ advancedFilterState' = aState
    /\ filteredEntries' = FilteredEntries(EntriesOf(session), fState, aState)
    /\ UNCHANGED sessionFile
    /\ UNCHANGED nonViewVars

SelectSession ==
    Render(LoadSessionContent(sessionFile), filterState, advancedFilterState)

ClearSession ==
    /\ currentSession # Null
    /\ Render(Null, filterState, advancedFilterState)

SetEntryType(type) ==
    Render(currentSession, [filterState EXCEPT !.entryType = type], advancedFilterState)

SetSearchQuery(query) ==
    Render(currentSession, [filterState EXCEPT !.searchQuery = query], advancedFilterState)

ClearFilters == Render(currentSession, DefaultFilterState, DefaultAdvancedFilterState)

CycleTypes == <<"all", "user", "assistant", "tool">>

\* types.indexOf(type), counted from 0
IndexOf(types, type) ==
    IF \E i \in DOMAIN types : types[i] = type
    THEN (CHOOSE i \in DOMAIN types : types[i] = type) - 1
    ELSE -1

CycleEntryType ==
    LET nextIndex == (IndexOf(CycleTypes, filterState.entryType) + 1) % Len(CycleTypes)
    IN  SetEntryType(CycleTypes[nextIndex + 1])

AdvancedUpdates ==
    { [role |-> r] : r \in RoleFilters } \cup
    { [onlyErrors |-> b] : b \in BOOLEAN } \cup
    { [toolCategory |-> c] : c \in ToolCategoryFilters } \cup
    { [toolNameQuery |-> q] : q \in ToolNameQueries }

UpdateAdvancedFilter(update) ==
    Render(currentSession, filterState, Spread(advancedFilterState, update))

ViewInit ==
    /\ sessionFile \in SessionFiles
    /\ currentSession = Null
    /\ filterState = DefaultFilterState
    /\ advancedFilterState = DefaultAdvancedFilterState
    /\ filteredEntries = <<>>

ViewIdle ==
    /\ sessionFile = <<BlankLine("")>>
    /\ currentSession = Null
    /\ filterState = DefaultFilterState
    /\ advancedFilterState = DefaultAdvancedFilterState
    /\ filteredEntries = <<>>

ViewNext ==
    \/ SelectSession
    \/ ClearSession
    \/ \E type \in EntryTypeFilters : SetEntryType(type)
    \/ \E query \in SearchQueries : SetSearchQuery(query)
    \/ ClearFilters
    \/ CycleEntryType
    \/ \E update \in AdvancedUpdates : UpdateAdvancedFilter(update)

(***************************************************************************)
(* The session files.  A file holds the entries its lines parse to.        *)
(***************************************************************************)
Paths == {"main/s1.jsonl", "helper/s2.jsonl"}
ScanOrder == <<"main/s1.jsonl", "helper/s2.jsonl">>
AgentOf(path) == IF path = "main/s1.jsonl" THEN "main" ELSE "helper"

Msg(id, ts) == [type |-> "message", id |-> id, timestamp |-> ts]
Sess(id, ts) == [type |-> "session", id |-> id, timestamp |-> ts]

FileMenu(path) ==
    IF path = "main/s1.jsonl"
    THEN { <<>>,
           << Msg("e1", "1970-01-01T00:10:00Z"), Msg("e2", "1970-01-01T00:30:00Z"),
              Msg("e3", "not-a-date") >>,
           << Sess("s-1", "1970-01-01T00:10:00Z"), Msg("e2", "1970-01-01T00:15:00Z") >> }
    ELSE { << Msg("e1", "1970-01-01T00:15:00Z"), Msg("e2", "1970-01-01T00:10:00.000Z"),
              Msg("e3", "1970-01-01T00:26:00Z") >>,
           << Msg("e1", "1970-01-01T00:00:00Z"), Msg("e2", "1969-12-31T23:50:00Z"),
              Msg("e3", "") >> }

(***************************************************************************)
(* session-loader: extractSessionMetadata, loadSessionSummary, loadSession *)
(* and getAllSessionSummaries, as far as the merge reads them.             *)
(***************************************************************************)
RECURSIVE MaxOf(_)
MaxOf(S) ==
    LET x == CHOOSE y \in S : TRUE
    IN  IF S = {x} THEN x
        ELSE LET m == MaxOf(S \ {x}) IN IF x > m THEN x ELSE m

SessionEntries(entries) == SelectSeq(entries, LAMBDA e : e.type = "session")

ValidTimestamps(entries, t) ==
    { DateGetTime(entries[i].timestamp) : i \in
        { j \in 1..Len(entries) :
            LET ts == DateGetTime(entries[j].timestamp)
            IN  NumberIsFinite(ts) /\ ts > 0 /\ ts <= t + FiveMinutes } }

ExtractSessionMetadata(entries, t) ==
    LET se == SessionEntries(entries)
        valid == ValidTimestamps(entries, t)
    IN  [ id |-> IF Len(se) > 0 /\ se[1].id # "" THEN se[1].id ELSE "unknown",
          timestamp |-> IF Len(se) > 0 THEN DateGetTime(se[1].timestamp) ELSE t,
          lastActivity |-> IF valid # {} THEN MaxOf(valid) ELSE t ]

LoadSessionSummary(path, file, t) ==
    IF ~file.readable THEN Null
    ELSE LET md == ExtractSessionMetadata(file.entries, t)
         IN  [ id |-> md.id, agentName |-> AgentOf(path), filePath |-> path,
               timestamp |-> md.timestamp, lastActivity |-> md.lastActivity,
               eventCount |-> Len(file.entries) ]

LoadSession(path, file, t) ==
    IF ~file.readable THEN Null
    ELSE LET md == ExtractSessionMetadata(file.entries, t)
         IN  [ id |-> md.id, agentName |-> AgentOf(path), filePath |-> path,
               timestamp |-> md.timestamp, entries |-> file.entries ]

RECURSIVE SummariesFrom(_, _, _)
SummariesFrom(order, files, t) ==
    IF order = <<>> THEN <<>>
    ELSE LET s == LoadSessionSummary(Head(order), files[Head(order)], t)
             rest == SummariesFrom(Tail(order), files, t)
         IN  IF s = Null THEN rest ELSE <<s>> \o rest

GetAllSessionSummaries(files, t) == SummariesFrom(ScanOrder, files, t)

(***************************************************************************)
(* useSessions: the sort of the session list, isValidEventTimestamp, and   *)
(* the sort of the merged events (Array.prototype.sort is stable).         *)
(***************************************************************************)
RECURSIVE InsertSession(_, _)
InsertSession(s, sorted) ==
    IF sorted = <<>> THEN <<s>>
    ELSE IF Head(sorted).lastActivity - s.lastActivity < 0
         THEN <<s>> \o sorted
         ELSE <<Head(sorted)>> \o InsertSession(s, Tail(sorted))

RECURSIVE SortSessions(_)
SortSessions(list) ==
    IF list = <<>> THEN <<>>
    ELSE InsertSession(list[Len(list)], SortSessions(SubSeq(list, 1, Len(list) - 1)))

\* the timestamp test without the bound of five minutes ahead of now
IsValidEventTimestampNoFutureCheck(timestamp, t) ==
    LET ts == DateGetTime(timestamp)
    IN  IF ~NumberIsFinite(ts) \/ ts <= 0 THEN FALSE
        ELSE TRUE

IsValidEventTimestamp(timestamp, t) ==
    LET ts == DateGetTime(timestamp)
    IN  IF ~NumberIsFinite(ts) \/ ts <= 0 THEN FALSE
        ELSE ts <= t + FiveMinutes

EventTime(ev) == DateGetTime(ev.entry.timestamp)

\* a comparator that puts the oldest event first
CompareEventsAscending(a, b) == EventTime(a) - EventTime(b)

\* the comparator of events.sort: negative when a goes first
CompareEvents(a, b) == EventTime(b) - EventTime(a)

RECURSIVE InsertEvent(_, _)
InsertEvent(ev, sorted) ==
    IF sorted = <<>> THEN <<ev>>
    ELSE IF CompareEvents(Head(sorted), ev) > 0
         THEN <<ev>> \o sorted
         ELSE <<Head(sorted)>> \o InsertEvent(ev, Tail(sorted))

RECURSIVE SortEvents(_)
SortEvents(events) ==
    IF events = <<>> THEN <<>>
    ELSE InsertEvent(events[Len(events)], SortEvents(SubSeq(events, 1, Len(events) - 1)))

GlobalEvent(entry, session) ==
    [ entry |-> entry, agentName |-> session.agentName, sessionId |-> session.id,
      sessionFilePath |-> session.filePath, sessionTimestamp |-> session.timestamp ]

\* the inner loop of preloadAllEvents over one loaded session
RECURSIVE EventsOfSession(_, _, _)
EventsOfSession(entries, session, t) ==
    IF entries = <<>> THEN <<>>
    ELSE IF ~IsValidEventTimestamp(Head(entries).timestamp, t)
         THEN EventsOfSession(Tail(entries), session, t)
         ELSE <<GlobalEvent(Head(entries), session)>>
                \o EventsOfSession(Tail(entries), session, t)

(***************************************************************************)
(* useSessions: preloadAllEvents and its callers.  An await is where an    *)
(* action ends: the scan of loadData, refresh and pollAllEvents, and each  *)
(* loadSession of a merge pass.                                            *)
(***************************************************************************)
NoPass == [list |-> <<>>, log |-> <<>>]

\* an iteration that throws the events away when the session did not load
EventsAfterLoadAborting(events, session, fullSession, t) ==
    IF fullSession = Null THEN <<>>
    ELSE events \o EventsOfSession(fullSession.entries, session, t)

\* one iteration of the loop of preloadAllEvents, after its loadSession returned:
\* a session that did not load adds nothing and ends nothing
EventsAfterLoad(events, session, fullSession, t) ==
    IF fullSession = Null THEN events
    ELSE events \o EventsOfSession(fullSession.entries, session, t)

ScanKinds == {"mount", "refresh", "poll"}

\* no guard: a call never finds a pass in flight
PreloadGuardMissing == FALSE

\* if (isPreloadingRef.current) return;
PreloadGuard == isPreloadingRef

\* preloadAllEvents as it was before 0.1.2: a call with an empty list marks the
\* cache as loaded
PreloadAllEventsMarkingEmpty(sessionList, force, loadedRef, events) ==
    /\ allEvents' = events
    /\ IF PreloadGuard
       THEN /\ lastCall' = "inFlight"
            /\ allEventsLoadedRef' = loadedRef
            /\ UNCHANGED <<isPreloadingRef, allEventsLoading, passes>>
       ELSE IF ~force /\ loadedRef
       THEN /\ lastCall' = "loaded"
            /\ allEventsLoadedRef' = loadedRef
            /\ UNCHANGED <<isPreloadingRef, allEventsLoading, passes>>
       ELSE IF Len(sessionList) = 0
       THEN /\ lastCall' = "empty"
            /\ allEventsLoadedRef' = TRUE
            /\ UNCHANGED <<isPreloadingRef, allEventsLoading, passes>>
       ELSE /\ lastCall' = "started"
            /\ allEventsLoadedRef' = loadedRef
            /\ isPreloadingRef' = TRUE
            /\ allEventsLoading' = TRUE
            /\ passes' = Append(passes, [ list |-> sessionList, idx |-> 1,
                                          events |-> <<>>, log |-> <<>> ])

\* preloadAllEvents(sessionList, force) up to its first await; loadedRef and
\* events are what the caller has just set, if anything
PreloadAllEvents(sessionList, force, loadedRef, events) ==
    /\ allEvents' = events
    /\ allEventsLoadedRef' = loadedRef
    /\ IF PreloadGuard
       THEN /\ lastCall' = "inFlight"
            /\ UNCHANGED <<isPreloadingRef, allEventsLoading, passes>>
       ELSE IF ~force /\ loadedRef
       THEN /\ lastCall' = "loaded"
            /\ UNCHANGED <<isPreloadingRef, allEventsLoading, passes>>
       ELSE IF Len(sessionList) = 0
       THEN /\ lastCall' = "empty"
            /\ UNCHANGED <<isPreloadingRef, allEventsLoading, passes>>
       ELSE /\ lastCall' = "started"
            /\ isPreloadingRef' = TRUE
            /\ allEventsLoading' = TRUE
            /\ passes' = Append(passes, [ list |-> sessionList, idx |-> 1,
                                          events |-> <<>>, log |-> <<>> ])

\* the scan of loadData, refresh or pollAllEvents returns
ScanDone(kind) ==
    /\ scans[kind] > 0
    /\ scans' = [scans EXCEPT ![kind] = @ - 1]
    /\ LET sortedSessions == SortSessions(GetAllSessionSummaries(fs, now))
       IN  /\ sessions' = sortedSessions
           /\ CASE kind = "mount" ->
                     PreloadAllEvents(sortedSessions, FALSE, allEventsLoadedRef, allEvents)
                [] kind = "refresh" ->
                     PreloadAllEvents(sortedSessions, TRUE, FALSE, <<>>)
                [] kind = "poll" ->
                     PreloadAllEvents(sortedSessions, TRUE, FALSE, allEvents)
    /\ lastDone' = IF kind = "refresh" THEN NoPass ELSE lastDone
    /\ UNCHANGED <<now, fs, nReq>>
    /\ UNCHANGED nonMergeVars

Refresh ==
    /\ nReq < MaxRequests
    /\ nReq' = nReq + 1
    /\ scans' = [scans EXCEPT !["refresh"] = @ + 1]
    /\ UNCHANGED <<now, fs, sessions, allEvents, allEventsLoading, allEventsLoadedRef,
                   isPreloadingRef, passes, lastCall, lastDone>>
    /\ UNCHANGED nonMergeVars

PollAllEvents ==
    /\ nReq < MaxRequests
    /\ nReq' = nReq + 1
    /\ scans' = [scans EXCEPT !["poll"] = @ + 1]
    /\ UNCHANGED <<now, fs, sessions, allEvents, allEventsLoading, allEventsLoadedRef,
                   isPreloadingRef, passes, lastCall, lastDone>>
    /\ UNCHANGED nonMergeVars

LoadAllEvents ==
    /\ nReq < MaxRequests
    /\ nReq' = nReq + 1
    /\ IF Len(sessions) = 0
       THEN /\ lastCall' = "noSessions"
            /\ UNCHANGED <<allEvents, allEventsLoading, allEventsLoadedRef,
                           isPreloadingRef, passes>>
       ELSE PreloadAllEvents(sessions, TRUE, allEventsLoadedRef, allEvents)
    /\ UNCHANGED <<now, fs, sessions, scans, lastDone>>
    /\ UNCHANGED nonMergeVars

RemoveAt(seq, k) == SubSeq(seq, 1, k - 1) \o SubSeq(seq, k + 1, Len(seq))

\* the end of a pass without the finally: the guard flag and the loading
\* indicator are left set
LoadReturnsWithoutFinally(k) ==
    /\ k \in 1..Len(passes)
    /\ \E p \in {passes[k]} :
       \E session \in {p.list[p.idx]} :
       \E fullSession \in {LoadSession(session.filePath, fs[session.filePath], now)} :
       \E events \in {EventsAfterLoad(p.events, session, fullSession, now)} :
       \E log \in {Append(p.log, [ loaded |-> fullSession # Null,
                                   entries |-> IF fullSession = Null THEN <<>>
                                               ELSE fullSession.entries,
                                   at |-> now ])} :
           IF p.idx < Len(p.list)
           THEN /\ passes' = [passes EXCEPT ![k] =
                                [ list |-> p.list, idx |-> p.idx + 1,
                                  events |-> events, log |-> log ]]
                /\ UNCHANGED <<allEvents, allEventsLoading, allEventsLoadedRef,
                               isPreloadingRef, lastDone>>
           ELSE /\ allEvents' = SortEvents(events)
                /\ allEventsLoadedRef' = TRUE
                /\ passes' = RemoveAt(passes, k)
                /\ lastDone' = [list |-> p.list, log |-> log]
                /\ UNCHANGED <<allEventsLoading, isPreloadingRef>>
    /\ UNCHANGED <<now, fs, sessions, scans, nReq, lastCall>>
    /\ UNCHANGED nonMergeVars

\* the awaited loadSession of pass k returns: the rest of the loop body, then
\* either the next loadSession or the sort, the publication and the finally.
\* p, session, fullSession, events and log are each the one value of its set.
LoadReturns(k) ==
    /\ k \in 1..Len(passes)
    /\ \E p \in {passes[k]} :
       \E session \in {p.list[p.idx]} :
       \E fullSession \in {LoadSession(session.filePath, fs[session.filePath], now)} :
       \E events \in {EventsAfterLoad(p.events, session, fullSession, now)} :
       \E log \in {Append(p.log, [ loaded |-> fullSession # Null,
                                   entries |-> IF fullSession = Null THEN <<>>
                                               ELSE fullSession.entries,
                                   at |-> now ])} :
           IF p.idx < Len(p.list)
           THEN /\ passes' = [passes EXCEPT ![k] =
                                [ list |-> p.list, idx |-> p.idx + 1,
                                  events |-> events, log |-> log ]]
                /\ UNCHANGED <<allEvents, allEventsLoading, allEventsLoadedRef,
                               isPreloadingRef, lastDone>>
           ELSE /\ allEvents' = SortEvents(events)
                /\ allEventsLoadedRef' = TRUE
                /\ allEventsLoading' = FALSE
                /\ isPreloadingRef' = FALSE
                /\ passes' = RemoveAt(passes, k)
                /\ lastDone' = [list |-> p.list, log |-> log]
    /\ UNCHANGED <<now, fs, sessions, scans, nReq, lastCall>>
    /\ UNCHANGED nonMergeVars

\* time passes and a pass in flight is given up
TickCancelling ==
    /\ now < Now0 + MaxTicks * TickMs
    /\ now' = now + TickMs
    /\ passes' = <<>>
    /\ isPreloadingRef' = FALSE
    /\ allEventsLoading' = FALSE
    /\ UNCHANGED <<fs, sessions, allEvents, allEventsLoadedRef, scans, nReq, lastCall,
                   lastDone>>
    /\ UNCHANGED nonMergeVars

\* the environment: time passes, a session file is removed or made unreadable
Tick ==
    /\ now < Now0 + MaxTicks * TickMs
    /\ now' = now + TickMs
    /\ UNCHANGED <<fs, sessions, allEvents, allEventsLoading, allEventsLoadedRef,
                   isPreloadingRef, scans, passes, nReq, lastCall, lastDone>>
    /\ UNCHANGED nonMergeVars

FileAccessChanges(path) ==
    /\ fs[path].readable
    /\ fs' = [fs EXCEPT ![path].readable = FALSE]
    /\ UNCHANGED <<now, sessions, allEvents, allEventsLoading, allEventsLoadedRef,
                   isPreloadingRef, scans, passes, nReq, lastCall, lastDone>>
    /\ UNCHANGED nonMergeVars

MergeInit ==
    /\ now = Now0
    /\ fs \in { f \in [Paths -> [readable : BOOLEAN,
                                  entries : UNION {FileMenu(p) : p \in Paths}]] :
                   \A p \in Paths : f[p].entries \in FileMenu(p) }
    /\ sessions = <<>>
    /\ allEvents = <<>>
    /\ allEventsLoading = FALSE
    /\ allEventsLoadedRef = FALSE
    /\ isPreloadingRef = FALSE
    /\ scans = [k \in ScanKinds |-> IF k = "mount" THEN 1 ELSE 0]
    /\ passes = <<>>
    /\ nReq = 0
    /\ lastCall = "none"
    /\ lastDone = NoPass

\* the hook before its mount effect has run, for the specifications of the pure
\* functions
HookIdle ==
    /\ fs = [p \in Paths |-> [readable |-> FALSE, entries |-> <<>>]]
    /\ sessions = <<>>
    /\ allEvents = <<>>
    /\ allEventsLoading = FALSE
    /\ allEventsLoadedRef = FALSE
    /\ isPreloadingRef = FALSE
    /\ scans = [k \in ScanKinds |-> 0]
    /\ passes = <<>>
    /\ nReq = 0
    /\ lastCall = "none"
    /\ lastDone = NoPass

MergeIdle ==
    /\ now = Now0
    /\ HookIdle

MergeNext ==
    \/ \E kind \in ScanKinds : ScanDone(kind)
    \/ Refresh
    \/ PollAllEvents
    \/ LoadAllEvents
    \/ \E k \in 1..Len(passes) : LoadReturns(k)
    \/ Tick
    \/ \E path \in Paths : FileAccessChanges(path)


(***************************************************************************)
(* Properties of the global event merge.                                   *)
(***************************************************************************)
CountIn(seq, x) == Cardinality({ i \in DOMAIN seq : seq[i] = x })

SameBag(s1, s2) ==
    /\ Len(s1) = Len(s2)
    /\ \A i \in DOMAIN s1 : CountIn(s1, s1[i]) = CountIn(s2, s1[i])

\* the validity of a timestamp as the data model states it
TimestampIsValid(timestamp, t) ==
    /\ DateGetTime(timestamp) # NaN
    /\ DateGetTime(timestamp) > 0
    /\ DateGetTime(timestamp) <= t + 5 * 60 * 1000

ValidEntriesOf(rec) ==
    SelectSeq(rec.entries, LAMBDA e : TimestampIsValid(e.timestamp, rec.at))

RECURSIVE ExpectedEvents(_, _)
ExpectedEvents(list, log) ==
    IF log = <<>> THEN <<>>
    ELSE LET valid == ValidEntriesOf(Head(log))
         IN  [ i \in 1..Len(valid) |->
                 [ entry |-> valid[i], agentName |-> Head(list).agentName,
                   sessionId |-> Head(list).id, sessionFilePath |-> Head(list).filePath,
                   sessionTimestamp |-> Head(list).timestamp ] ]
             \o ExpectedEvents(Tail(list), Tail(log))

\* C1: after a merge pass the global events are exactly one event per entry with a
\* valid timestamp (finite, > 0, <= now + 5 minutes at the time of the load) of
\* each session of the list that loaded, and none for an entry with an invalid
\* timestamp, while the entry counts of the summaries and of the loaded sessions
\* count every entry of the file, valid or not.
C1_MergeKeepsExactlyValidEvents ==
    /\ SameBag(allEvents, ExpectedEvents(lastDone.list, lastDone.log))
    /\ \A i \in DOMAIN sessions :
         sessions[i].eventCount = Len(fs[sessions[i].filePath].entries)
    /\ \A i \in DOMAIN lastDone.log :
         lastDone.log[i].loaded =>
             Len(lastDone.log[i].entries) = Len(fs[lastDone.list[i].filePath].entries)

\* the three-line session of the scenario: one valid, one future and one
\* unparsable timestamp; entry count 3, one global event
C1_Witness ==
    /\ Len(lastDone.list) = 1
    /\ lastDone.log[1].loaded
    /\ Len(lastDone.log[1].entries) = 3
    /\ Len(ValidEntriesOf(lastDone.log[1])) = 1
    /\ Len(allEvents) = 1
    /\ allEvents[1].entry.id = "e1"
    /\ \E i \in DOMAIN sessions :
         sessions[i].filePath = lastDone.list[1].filePath /\ sessions[i].eventCount = 3

\* C2: the published global events are in descending order of entry timestamp.
C2_EventsDescending ==
    \A i \in 1..(Len(allEvents) - 1) :
        EventTime(allEvents[i]) >= EventTime(allEvents[i + 1])

\* a pass over two sessions whose events had to be reordered, across the two
\* sessions and inside one file
C2_Witness ==
    /\ Len(lastDone.list) = 2
    /\ Len(allEvents) >= 4
    /\ \E i, j \in DOMAIN allEvents :
         /\ i < j
         /\ EventTime(allEvents[i]) > EventTime(allEvents[j])
         /\ allEvents[i].sessionFilePath = allEvents[j].sessionFilePath
         /\ allEvents[i].entry.id = "e2"
         /\ allEvents[j].entry.id = "s-1"
    /\ \E i, j \in DOMAIN allEvents :
         /\ i < j
         /\ allEvents[i].sessionFilePath = lastDone.list[2].filePath
         /\ allEvents[j].sessionFilePath = lastDone.list[1].filePath

\* a step in which preloadAllEvents is called
MergeRequested ==
    \/ \E kind \in ScanKinds : ScanDone(kind)
    \/ LoadAllEvents /\ Len(sessions) > 0

\* C3: at most one merge pass is in flight; a merge request that arrives while a
\* pass is in flight starts no pass and no load and is dropped, and the end of
\* the pass in flight starts none either.
C3_OnePassInFlight ==
    [][ /\ Len(passes) <= 1
        /\ Len(passes') <= 1
        /\ (MergeRequested /\ passes # <<>>) =>
               (passes' = passes /\ lastCall' = "inFlight")
        /\ (Len(passes') < Len(passes)) => (passes' = <<>> /\ lastCall' = lastCall)
      ]_vars

\* a request was dropped while a pass was in flight, the pass has ended, and
\* nothing is left running
C3_Witness ==
    /\ lastCall = "inFlight"
    /\ passes = <<>>
    /\ lastDone # NoPass
    /\ \A kind \in ScanKinds : scans[kind] = 0

\* C6: a session that fails to load does not end the pass: every session of the
\* list is tried, and the published events hold every valid event of every
\* session that loaded and nothing of the one that failed.
C6_FailedLoadIsSkipped ==
    /\ Len(lastDone.log) = Len(lastDone.list)
    /\ \A i \in DOMAIN lastDone.log :
         LET rec == lastDone.log[i]
             path == lastDone.list[i].filePath
             others == { j \in DOMAIN lastDone.log : lastDone.list[j].filePath # path }
         IN  IF rec.loaded
             THEN \A k \in DOMAIN rec.entries :
                     TimestampIsValid(rec.entries[k].timestamp, rec.at) =>
                         \E n \in DOMAIN allEvents :
                             /\ allEvents[n].entry = rec.entries[k]
                             /\ allEvents[n].sessionFilePath = path
             ELSE \A n \in DOMAIN allEvents : allEvents[n].sessionFilePath # path

\* the first session of a two-session pass failed to load and the events of the
\* second were published
C6_Witness ==
    /\ Len(lastDone.list) = 2
    /\ ~lastDone.log[1].loaded
    /\ lastDone.log[2].loaded
    /\ Len(allEvents) > 0
    /\ \A n \in DOMAIN allEvents : allEvents[n].sessionFilePath = lastDone.list[2].filePath

\* C24: a merge request with an empty session list starts no pass, does not mark
\* the cache of the global events as loaded and leaves the global events as its
\* caller left them (refresh has emptied them before it asks); the cache becomes
\* loaded only at the end of a pass over a list that is not empty.
C24_EmptyListNeverMarksLoaded ==
    [][ /\ (MergeRequested /\ lastCall' = "empty") =>
               /\ passes' = passes
               /\ ~allEventsLoadedRef'
               /\ allEvents' = IF ScanDone("refresh") THEN <<>> ELSE allEvents
        /\ (allEventsLoadedRef' /\ ~allEventsLoadedRef) =>
               /\ Len(passes') < Len(passes)
               /\ lastDone'.list # <<>>
      ]_vars

\* a poll found no session after the events of a session had been published: the
\* events are still there, the cache is not marked as loaded, nothing runs
C24_Witness ==
    /\ lastCall = "empty"
    /\ sessions = <<>>
    /\ allEvents # <<>>
    /\ ~allEventsLoadedRef
    /\ passes = <<>>

\* a step in which an awaited loadSession of a pass returns
LoadReturned == \E k \in 1..Len(passes) : LoadReturns(k)

\* C25: a pass in flight has no timeout and cannot be cancelled.  While it is in
\* flight the guard flag and the loading indicator are set, and as long as its
\* awaited loadSession does not return, whatever else happens and however much
\* time passes, the pass stays where it is, nothing of it is published, and
\* every merge request of refresh, poll or loadAllEvents is dropped.
C25_StalledLoadStallsEverything ==
    [][ passes # <<>> =>
          /\ isPreloadingRef /\ allEventsLoading
          /\ ~LoadReturned =>
                /\ passes' = passes
                /\ isPreloadingRef' /\ allEventsLoading'
                /\ allEvents' \in {allEvents, <<>>}
                /\ allEventsLoadedRef' => allEventsLoadedRef
                /\ lastDone' \in {lastDone, NoPass}
                /\ MergeRequested => lastCall' = "inFlight"
      ]_vars

\* a pass still awaits a loadSession after time has passed and all the requests
\* the user could make were made, the last of them dropped
C25_Witness ==
    /\ passes # <<>>
    /\ now > Now0
    /\ nReq = MaxRequests
    /\ \A kind \in ScanKinds : scans[kind] = 0
    /\ lastCall = "inFlight"
    /\ isPreloadingRef /\ allEventsLoading

\* no scan and no merge pass is in flight
HookQuiet == passes = <<>> /\ \A kind \in ScanKinds : scans[kind] = 0

\* C26, as stated: whenever no scan and no merge pass is in flight, every global
\* event is of a session of the session list now shown.
C26_EventsBelongToShownSessions ==
    HookQuiet =>
        \A n \in DOMAIN allEvents :
            \E i \in DOMAIN sessions : sessions[i].filePath = allEvents[n].sessionFilePath

\* C27: the guard flag and the loading indicator of the global events are set
\* exactly while a merge pass is in flight; when every loadSession returns,
\* every pass that started ends, and with both cleared; and a merge request made
\* when no pass is in flight is never dropped at the guard.
C27_FlagsSetExactlyDuringAPass ==
    /\ [](isPreloadingRef <=> passes # <<>>)
    /\ [](allEventsLoading <=> passes # <<>>)
    /\ (passes # <<>>) ~> (passes = <<>> /\ ~isPreloadingRef /\ ~allEventsLoading)
    /\ [][(MergeRequested /\ passes = <<>>) => lastCall' # "inFlight"]_vars

\* a pass has ended and a later request has started the next one
C27_Witness ==
    /\ lastDone # NoPass
    /\ lastCall = "started"
    /\ nReq > 0
    /\ Len(passes) = 1
    /\ passes[1].idx = 1
    /\ isPreloadingRef /\ allEventsLoading

(***************************************************************************)
(* Properties of the parser.                                               *)
(***************************************************************************)
RecognizedTypes ==
    {"session", "model_change", "thinking_level_change", "custom", "compaction", "message"}

\* the line is the JSON text of an object whose type is one of the six
HasRecognizedType(ln) ==
    /\ ln.kind = "json"
    /\ ln.value.t = "object"
    /\ Get(ln.value, "type").t = "string"
    /\ Get(ln.value, "type").v \in RecognizedTypes

\* C4: parseEntry never throws; a blank line, text that is no JSON, a JSON value
\* that is no object and an object of an unrecognized type give null, and an
\* object of one of the six types gives an entry of that type.
C4_ParseEntryNeverThrows ==
    parsed # Pending =>
        /\ parsed.value # Threw
        /\ IF HasRecognizedType(line)
           THEN /\ parsed.value.t = "object"
                /\ Get(parsed.value, "type") = Get(line.value, "type")
           ELSE parsed.value = JNull

\* the line "null": discriminateEntry throws on it and parseEntry returns null
C4_Witness ==
    /\ line = JsonLine(JNull)
    /\ parsed = [value |-> JNull, logged |-> TRUE]

RawField(path) == GetPath(line.value, path)
ParsedField(path) == GetPath(parsed.value, path)

RequiredString(v) == IF v.t = "string" THEN v ELSE JStr("")
RequiredNumber(v) == IF v.t = "number" THEN v ELSE JNum(0)
OneOf(v, members, default) ==
    IF v.t = "string" /\ v.v \in members THEN v ELSE JStr(default)
OptionalString(v) == IF v.t = "string" /\ v.v # "" THEN v ELSE Undefined
OptionalNumber(v) == IF v.t = "number" THEN v ELSE Undefined
NullableString(v) == IF v.t = "string" THEN v ELSE JNull

IsRecordValue(v) == v.t \in {"object", "array"}

EntryType == Get(line.value, "type").v

StringFields ==
    {<<"id">>, <<"timestamp">>} \cup
    CASE EntryType = "session" -> {<<"cwd">>}
      [] EntryType = "model_change" -> {<<"provider">>, <<"modelId">>}
      [] EntryType = "custom" -> {<<"customType">>}
      [] EntryType = "compaction" -> {<<"summary">>, <<"firstKeptEntryId">>}
      [] OTHER -> {}

NumberFields ==
    CASE EntryType = "session" -> {<<"version">>}
      [] EntryType = "compaction" -> {<<"tokensBefore">>}
      [] EntryType = "message" /\ IsRecordValue(RawField(<<"message", "usage">>)) ->
           { <<"message", "usage", f>> :
               f \in {"input", "output", "cacheRead", "cacheWrite", "totalTokens"} }
      [] OTHER -> {}

OptionalStringFields ==
    IF EntryType = "message"
    THEN { <<"message", f>> :
             f \in {"api", "provider", "model", "stopReason", "toolCallId", "toolName"} }
    ELSE {}

OptionalNumberFields ==
    IF EntryType = "message" /\ IsRecordValue(RawField(<<"message", "details">>))
    THEN { <<"message", "details", "exitCode">>, <<"message", "details", "durationMs">> }
    ELSE {}

EnumsAsParsed ==
    /\ EntryType = "thinking_level_change" =>
           ParsedField(<<"thinkingLevel">>) =
               OneOf(RawField(<<"thinkingLevel">>), {"off", "low", "medium", "high"}, "off")
    /\ EntryType = "message" =>
           ParsedField(<<"message", "role">>) =
               OneOf(RawField(<<"message", "role">>),
                     {"user", "assistant", "toolResult"}, "user")
    /\ (EntryType = "message" /\ IsRecordValue(RawField(<<"message", "details">>))) =>
           ParsedField(<<"message", "details", "status">>) =
               OneOf(RawField(<<"message", "details", "status">>),
                     {"completed", "error", "running"}, "completed")

\* the value is there and is not of the type t
Mistyped(v, t) == v # Undefined /\ v.t # t

\* C8 as stated: every mistyped number field becomes 0 and every mistyped string
\* field becomes "", exitCode, durationMs and the strings of a message included.
C8_EveryMistypedFieldGetsZeroOrEmpty ==
    (parsed # Pending /\ HasRecognizedType(line)) =>
        /\ parsed.value # JNull
        /\ \A path \in StringFields \cup OptionalStringFields :
             IF Mistyped(RawField(path), "string")
             THEN ParsedField(path) = JStr("")
             ELSE RawField(path) # Undefined => ParsedField(path) = RawField(path)
        /\ \A path \in NumberFields \cup OptionalNumberFields :
             IF Mistyped(RawField(path), "number")
             THEN ParsedField(path) = JNum(0)
             ELSE RawField(path) # Undefined => ParsedField(path) = RawField(path)
        /\ EnumsAsParsed

\* C8, amended: each field is a function of its own raw value alone: a required
\* string becomes "" and a required number 0 when missing or mistyped, an enum
\* its default member, parentId null, and an optional field (api, provider,
\* model, stopReason, toolCallId, toolName, exitCode, durationMs) is left out;
\* usage and details are left out when they are no object.
C8_FieldsDefaultIndependently ==
    (parsed # Pending /\ HasRecognizedType(line)) =>
        /\ parsed.value # JNull
        /\ ParsedField(<<"parentId">>) = NullableString(RawField(<<"parentId">>))
        /\ \A path \in StringFields :
             ParsedField(path) = RequiredString(RawField(path))
        /\ \A path \in NumberFields :
             ParsedField(path) = RequiredNumber(RawField(path))
        /\ \A path \in OptionalStringFields :
             ParsedField(path) = OptionalString(RawField(path))
        /\ \A path \in OptionalNumberFields :
             ParsedField(path) = OptionalNumber(RawField(path))
        /\ EnumsAsParsed
        /\ EntryType = "message" =>
             /\ ~IsRecordValue(RawField(<<"message", "usage">>)) =>
                    ParsedField(<<"message", "usage">>) = Undefined
             /\ ~IsRecordValue(RawField(<<"message", "details">>)) =>
                    ParsedField(<<"message", "details">>) = Undefined

\* a tool result whose exitCode is a string and whose role is a number: exitCode
\* is left out, the role is user, and status and durationMs are as in the line
C8_Witness ==
    /\ parsed # Pending
    /\ HasRecognizedType(line)
    /\ RawField(<<"message", "details", "exitCode">>) = JStr("zz")
    /\ RawField(<<"message", "role">>) = JNum(7)
    /\ ParsedField(<<"message", "details", "exitCode">>) = Undefined
    /\ ParsedField(<<"message", "role">>) = JStr("user")
    /\ ParsedField(<<"message", "details", "status">>) = JStr("error")
    /\ ParsedField(<<"message", "details", "durationMs">>) = JNum(50)

RawContent ==
    IF RawField(<<"message", "content">>).t = "array"
    THEN RawField(<<"message", "content">>).v ELSE <<>>

ParsedContent == ParsedField(<<"message", "content">>).v

\* the type of the block an element of the raw content array stands for
BlockTypeOf(element) ==
    IF Get(element, "type").t = "string"
       /\ Get(element, "type").v \in {"text", "thinking", "toolCall", "image"}
    THEN Get(element, "type").v ELSE "text"

BlockIsEmptyText(block) == block = JObj([type |-> JStr("text"), text |-> JStr("")])

BlockHasRecognizedType(element) ==
    /\ Get(element, "type").t = "string"
    /\ Get(element, "type").v \in {"text", "thinking", "toolCall", "image"}

BlockComesFrom(block, element) ==
    /\ Get(block, "type") = JStr(BlockTypeOf(element))
    /\ ~BlockHasRecognizedType(element) => BlockIsEmptyText(block)
    /\ BlockTypeOf(element) = "toolCall" =>
           /\ Get(block, "name") = RequiredString(Get(element, "name"))
           /\ Get(block, "id") = RequiredString(Get(element, "id"))
    /\ (BlockHasRecognizedType(element) /\ BlockTypeOf(element) \in {"text", "thinking"}) =>
           Get(block, "text") = RequiredString(Get(element, "text"))

\* C9 as stated: one block per element of the raw content array, block i from
\* element i, an element that is no recognized block giving an empty text block.
C9_OneBlockPerElement ==
    (parsed # Pending /\ HasRecognizedType(line) /\ EntryType = "message") =>
        /\ Len(ParsedContent) = Len(RawContent)
        /\ \A i \in DOMAIN ParsedContent : BlockComesFrom(ParsedContent[i], RawContent[i])

ObjectElements == SelectSeq(RawContent, IsRecordValue)

\* C9, amended: one block per element of the raw content array that is an
\* object (or an array), in the same order; an object of an unrecognized type
\* gives an empty text block; an element that is no object is dropped.
C9_OneBlockPerObjectElement ==
    (parsed # Pending /\ HasRecognizedType(line) /\ EntryType = "message") =>
        /\ Len(ParsedContent) = Len(ObjectElements)
        /\ \A i \in DOMAIN ParsedContent :
             BlockComesFrom(ParsedContent[i], ObjectElements[i])

\* content [7, {type: "audio"}]: the number is dropped, the audio block is kept
\* as an empty text block, at index 1
C9_Witness ==
    /\ parsed # Pending
    /\ HasRecognizedType(line)
    /\ EntryType = "message"
    /\ Len(RawContent) = 2
    /\ RawContent[1] = JNum(7)
    /\ Get(RawContent[2], "type") = JStr("audio")
    /\ Len(ParsedContent) = 1
    /\ BlockIsEmptyText(ParsedContent[1])

\* the fields of the data model (types/index.ts) a well-formed line carries
RECURSIVE ScalarPaths(_)
ScalarPaths(value) ==
    IF value.t = "object"
    THEN UNION { { <<k>> \o rest : rest \in ScalarPaths(value.v[k]) } : k \in DOMAIN value.v }
    ELSE { <<>> }

\* C10: parsing a well-formed line and serializing the entry again keeps every
\* field of the data model the line carries, and parsing the serialized line
\* gives an equal entry.
C10_RoundTripKeepsEveryField ==
    /\ (reserialized # Pending /\ line.kind = "json" /\ line.value \in WellFormedLines) =>
           \A path \in ScalarPaths(line.value) :
               GetPath(reserialized.value, path) = GetPath(line.value, path)
    /\ reparsed # Pending =>
           StringifyValue(reparsed.value) = StringifyValue(parsed.value)

(***************************************************************************)
(* The open session: its statistics and its filter.                        *)
(***************************************************************************)

RECURSIVE SumOver(_, _)
SumOver(F(_), seq) == IF seq = <<>> THEN 0 ELSE F(Head(seq)) + SumOver(F, Tail(seq))

MessagesOfRole(entries, role) ==
    SelectSeq(entries, LAMBDA entry : IsMessage(entry) /\ RoleOf(entry) = role)

ToolCallsIn(entry) == Len(SelectSeq(ContentOf(entry), IsToolCall))

UsageOf(entry, field) ==
    LET n == GetPath(entry, <<"message", "usage", field>>)
    IN  IF n.t = "number" THEN n.v ELSE 0

HasErrorFlag(entry) == GetPath(entry, <<"message", "isError">>) = JBool(TRUE)

\* C7: the statistics of a loaded session count every message once, in
\* messageCount and in the counter of its role; tool calls are those of the
\* assistant messages, errors the tool results flagged isError, token sums those
\* of the usage of the assistant messages; so messageCount is the sum of the
\* three role counters and errors never exceed toolResults.
C7_StatsAreOneFoldByRole ==
    currentSession # Null =>
        LET entries == currentSession.entries
            stats == currentSession.stats
            assistants == MessagesOfRole(entries, "assistant")
            results == MessagesOfRole(entries, "toolResult")
        IN  /\ stats.messageCount = Len(SelectSeq(entries, IsMessage))
            /\ stats.userMessages = Len(MessagesOfRole(entries, "user"))
            /\ stats.assistantMessages = Len(assistants)
            /\ stats.toolResults = Len(results)
            /\ stats.toolCalls = SumOver(ToolCallsIn, assistants)
            /\ stats.errors = Len(SelectSeq(results, HasErrorFlag))
            /\ stats.inputTokens = SumOver(LAMBDA e : UsageOf(e, "input"), assistants)
            /\ stats.outputTokens = SumOver(LAMBDA e : UsageOf(e, "output"), assistants)
            /\ stats.totalTokens = SumOver(LAMBDA e : UsageOf(e, "totalTokens"), assistants)
            /\ stats.messageCount =
                   stats.userMessages + stats.assistantMessages + stats.toolResults
            /\ stats.errors <= stats.toolResults

\* a session of a user message that holds a tool call, usage and the error flag,
\* followed by an assistant message with two tool calls: two tool calls, no
\* error, and the tokens of the assistant message alone
C7_Witness ==
    /\ currentSession # Null
    /\ Len(currentSession.entries) = 2
    /\ RoleOf(currentSession.entries[1]) = "user"
    /\ ToolCallsIn(currentSession.entries[1]) = 1
    /\ HasErrorFlag(currentSession.entries[1])
    /\ UsageOf(currentSession.entries[1], "input") = 10
    /\ RoleOf(currentSession.entries[2]) = "assistant"
    /\ currentSession.stats.messageCount = 2
    /\ currentSession.stats.toolCalls = 2
    /\ currentSession.stats.errors = 0
    /\ currentSession.stats.inputTokens = 10

Facets == {"entryType", "searchQuery", "role", "onlyErrors", "toolCategory", "toolNameQuery"}

FacetIsActive(facet) ==
    CASE facet = "entryType" -> filterState.entryType # "all"
      [] facet = "searchQuery" -> filterState.searchQuery # ""
      [] facet = "role" -> advancedFilterState.role # "all"
      [] facet = "onlyErrors" -> advancedFilterState.onlyErrors
      [] facet = "toolCategory" -> advancedFilterState.toolCategory # "all"
      [] facet = "toolNameQuery" -> Trim(advancedFilterState.toolNameQuery) # ""

ActiveFacets == { facet \in Facets : FacetIsActive(facet) }

\* the pass of one facet, applied to the result so far
ApplyFacet(facet, result) ==
    CASE facet = "entryType" -> ByEntryType(result, filterState)
      [] facet = "searchQuery" -> BySearchQuery(result, filterState)
      [] facet = "role" -> ByRole(result, advancedFilterState)
      [] facet = "onlyErrors" -> ByOnlyErrors(result, advancedFilterState)
      [] facet = "toolCategory" -> ByToolCategory(result, advancedFilterState)
      [] facet = "toolNameQuery" -> ByToolName(result, advancedFilterState)

\* the entry satisfies the facet, taken on its own
SatisfiesFacet(facet, entry) ==
    CASE facet = "entryType" -> EntryTypeMatches(entry, filterState.entryType)
      [] facet = "searchQuery" ->
           SearchMatches(entry, ToLowerCase(filterState.searchQuery))
      [] facet = "role" -> RoleMatches(entry, advancedFilterState.role)
      [] facet = "onlyErrors" -> ErrorMatches(entry)
      [] facet = "toolCategory" ->
           ToolCategoryMatches(entry, advancedFilterState.toolCategory)
      [] facet = "toolNameQuery" ->
           ToolNameMatches(entry, ToLowerCase(advancedFilterState.toolNameQuery))

RECURSIVE OrdersOf(_)
\* every order of the facets of a set
OrdersOf(facets) ==
    IF facets = {} THEN { <<>> }
    ELSE UNION { { <<first>> \o rest : rest \in OrdersOf(facets \ {first}) } :
                 first \in facets }

\* the orders of every set of facets
OrdersOfFacets == [ facets \in SUBSET Facets |-> OrdersOf(facets) ]

RECURSIVE ApplyInOrder(_, _)
ApplyInOrder(order, result) ==
    IF order = <<>> THEN result
    ELSE ApplyInOrder(Tail(order), ApplyFacet(Head(order), result))

\* the entries that satisfy every active facet, in the order of the input
SatisfyingAll(entries) ==
    SelectSeq(entries,
              LAMBDA entry : \A facet \in ActiveFacets : SatisfiesFacet(facet, entry))

\* C5: filteredEntries is the entries of the session restricted to those that
\* satisfy all active facets at once, in their input order; applying the passes
\* of the active facets in any order gives that same sequence; and the entries
\* of the session are still the ones that were loaded.
C5_FilterIsOrderIndependentConjunction ==
    LET entries == EntriesOf(currentSession)
        satisfying == SatisfyingAll(entries)
    IN  /\ filteredEntries = satisfying
        /\ \A order \in OrdersOfFacets[ActiveFacets] :
             ApplyInOrder(order, entries) = satisfying
        /\ currentSession # Null =>
             currentSession.entries = ParseJsonlContent(sessionFile)

\* all six facets are set, on a session of an assistant message and a failed
\* tool result of bash: the tool result alone is left
C5_Witness ==
    /\ ActiveFacets = Facets
    /\ Len(EntriesOf(currentSession)) = 2
    /\ RoleOf(EntriesOf(currentSession)[1]) = "assistant"
    /\ Len(filteredEntries) = 1
    /\ filteredEntries[1] = EntriesOf(currentSession)[2]

(***************************************************************************)
(* AllEventsViewer: the histogram of the events it is given.  The events   *)
(* are the filtered allEvents of the hook, so their timestamps are valid   *)
(* dates and they come newest first.  The division is exact here; the code *)
(* divides in floating point.                                              *)
(***************************************************************************)
MaxEvents == 3
DefaultHistogramBuckets == 52

Max(a, b) == IF a > b THEN a ELSE b
Min(a, b) == IF a < b THEN a ELSE b

\* String(n).padStart(2, "0")
PadStart2(n) == IF n < 10 THEN "0" \o ToString(n) ELSE ToString(n)

\* the hours and minutes of the date, in a UTC locale
FormatAxisTime(ts) ==
    PadStart2((ts \div 3600000) % 24) \o ":" \o PadStart2((ts \div 60000) % 60)

\* a bucket index that is not capped at the last bucket
BucketUncapped(ts, minTs, range, bucketCount) ==
    ((ts - minTs) * bucketCount) \div range

\* Math.min(bucketCount - 1, Math.floor(((ts - minTs) / range) * bucketCount))
Bucket(ts, minTs, range, bucketCount) ==
    Min(bucketCount - 1, ((ts - minTs) * bucketCount) \div range)

\* counts[bucket] = (counts[bucket] ?? 0) + 1, on an array indexed from 0
Increment(counts, bucket) ==
    [ b \in DOMAIN counts \cup {bucket} |->
        (IF b \in DOMAIN counts THEN counts[b] ELSE 0) + (IF b = bucket THEN 1 ELSE 0) ]

RECURSIVE CountTimestamps(_, _, _, _, _)
\* the loop over timestamps that fills counts
CountTimestamps(counts, timestamps, minTs, range, bucketCount) ==
    IF timestamps = <<>> THEN counts
    ELSE CountTimestamps(Increment(counts, Bucket(Head(timestamps), minTs, range, bucketCount)),
                         Tail(timestamps), minTs, range, bucketCount)

MinOf(S) == CHOOSE x \in S : \A y \in S : x <= y

BuildHistogram(events, buckets) ==
    LET bucketCount == Max(8, buckets)
        zeros == [ b \in 0..(bucketCount - 1) |-> 0 ]
    IN  IF Len(events) = 0
        THEN [ counts |-> zeros, startLabel |-> "--:--", endLabel |-> "--:--",
               maxCount |-> 0 ]
        ELSE LET timestamps == [ i \in DOMAIN events |-> EventTime(events[i]) ]
                 minTs == MinOf({ timestamps[i] : i \in DOMAIN timestamps })
                 maxTs == MaxOf({ timestamps[i] : i \in DOMAIN timestamps })
                 range == Max(maxTs - minTs, 1)
                 counts == CountTimestamps(zeros, timestamps, minTs, range, bucketCount)
             IN  [ counts |-> counts, startLabel |-> FormatAxisTime(minTs),
                   endLabel |-> FormatAxisTime(maxTs),
                   maxCount |-> MaxOf({ counts[b] : b \in DOMAIN counts } \cup {0}) ]

HistogramTimestamps ==
    { "1970-01-01T00:10:00Z", "1970-01-01T00:10:00.000Z", "1970-01-01T00:15:00Z",
      "1970-01-01T00:26:00Z", "1970-01-01T00:30:00Z" }

HistogramSession ==
    [ agentName |-> "main", id |-> "s-1", filePath |-> "main/s1.jsonl",
      timestamp |-> "1970-01-01T00:10:00Z" ]

\* the lists of up to MaxEvents events, newest first
HistogramEventLists ==
    { MapSeq(LAMBDA ts : GlobalEvent(Msg("e", ts), HistogramSession), stamps) :
        stamps \in { s \in SeqsUpTo(HistogramTimestamps, MaxEvents) :
                       \A i \in 1..(Len(s) - 1) : DateGetTime(s[i]) >= DateGetTime(s[i + 1]) } }

HistogramBucketRequests == {4, 8, 9, 24}

\* AllEventsViewer is rendered with new props: the memoized histogram is rebuilt
RenderAllEventsViewer(events, buckets) ==
    /\ histogramEvents' = events
    /\ histogramBuckets' = buckets
    /\ histogram' = BuildHistogram(events, buckets)
    /\ UNCHANGED nonHistogramVars

HistogramInit ==
    /\ histogramEvents = <<>>
    /\ histogramBuckets = DefaultHistogramBuckets
    /\ histogram = BuildHistogram(<<>>, DefaultHistogramBuckets)

HistogramIdle == HistogramInit

HistogramNext ==
    \E events \in HistogramEventLists, buckets \in HistogramBucketRequests :
        RenderAllEventsViewer(events, buckets)

\* C11: the histogram has max(8, requested) buckets; every event is counted in
\* exactly one bucket, the one of index floor((ts - min) / max(max - min, 1) *
\* bucketCount) capped at the last bucket, so the counts sum to the number of
\* events; maxCount is the largest count; an empty list gives all-zero counts,
\* maxCount 0 and placeholder labels.
C11_HistogramCountsEveryEventOnce ==
    LET bucketCount == IF histogramBuckets > 8 THEN histogramBuckets ELSE 8
        counts == histogram.counts
        stamps == [ i \in DOMAIN histogramEvents |->
                      DateGetTime(histogramEvents[i].entry.timestamp) ]
        lo == CHOOSE x \in { stamps[i] : i \in DOMAIN stamps } :
                 \A i \in DOMAIN stamps : x <= stamps[i]
        hi == CHOOSE x \in { stamps[i] : i \in DOMAIN stamps } :
                 \A i \in DOMAIN stamps : x >= stamps[i]
        span == IF hi - lo > 1 THEN hi - lo ELSE 1
        floor(i) == ((stamps[i] - lo) * bucketCount) \div span
        index(i) == IF floor(i) > bucketCount - 1 THEN bucketCount - 1 ELSE floor(i)
    IN  /\ DOMAIN counts = 0..(bucketCount - 1)
        /\ \A b \in DOMAIN counts :
             counts[b] = Cardinality({ i \in DOMAIN stamps : index(i) = b })
        /\ SumOver(LAMBDA b : counts[b - 1], [ b \in 1..bucketCount |-> b ])
             = Len(histogramEvents)
        /\ \A b \in DOMAIN counts : counts[b] <= histogram.maxCount
        /\ histogram.maxCount = 0 \/ \E b \in DOMAIN counts : counts[b] = histogram.maxCount
        /\ histogramEvents = <<>> =>
             /\ \A b \in DOMAIN counts : counts[b] = 0
             /\ histogram.maxCount = 0
             /\ histogram.startLabel = "--:--"
             /\ histogram.endLabel = "--:--"

\* three events were counted with fewer than 8 buckets requested; the newest
\* fell in the last bucket and two events share a bucket
C11_Witness ==
    /\ Len(histogramEvents) = 3
    /\ histogramBuckets < 8
    /\ histogram.counts[7] >= 1
    /\ histogram.maxCount = 2


(***************************************************************************)
(* The text the free-text query of the global view is matched against      *)
(* (App.tsx, eventSearchText), and JSON.stringify as text.                 *)
(***************************************************************************)
\* the keys of an entry and of the arguments of a tool call, in the order the
\* parser writes them and JSON.stringify reads them
KeyOrder ==
    << "type", "id", "parentId", "timestamp", "version", "cwd", "provider", "modelId",
       "thinkingLevel", "customType", "data", "summary", "firstKeptEntryId",
       "tokensBefore", "command", "path" >>

RECURSIVE JsonText(_)
\* JSON.stringify(value), for strings that need no escape
JsonText(value) ==
    CASE value.t = "string" -> "\"" \o value.v \o "\""
      [] value.t = "number" -> ToString(value.v)
      [] value.t = "boolean" -> IF value.v THEN "true" ELSE "false"
      [] value.t = "array" ->
           "[" \o Join(MapSeq(LAMBDA x : IF x = Undefined THEN "null" ELSE JsonText(x),
                              value.v), ",") \o "]"
      [] value.t = "object" ->
           LET keys == SelectSeq(KeyOrder,
                                 LAMBDA k : k \in DOMAIN value.v /\ value.v[k] # Undefined)
           IN  "{" \o Join(MapSeq(LAMBDA k : "\"" \o k \o "\":" \o JsonText(value.v[k]),
                                  keys), ",") \o "}"
      [] OTHER -> "null"

\* the text blocks of a message, joined by a space
TextBlocksOf(entry) ==
    Join(MapSeq(LAMBDA b : OrEmpty(Get(b, "text")),
                SelectSeq(ContentOf(entry), LAMBDA b : Get(b, "type") = JStr("text"))),
         " ")

\* the name and the serialized arguments of each tool call, joined by a space
ToolBlocksOf(entry) ==
    Join(MapSeq(LAMBDA b : OrEmpty(Get(b, "name")) \o " " \o JsonText(Get(b, "arguments")),
                SelectSeq(ContentOf(entry), IsToolCall)),
         " ")

\* what eventSearchText adds to the base of a message
MessageSearchText(entry) ==
    RoleOf(entry) \o " " \o OrEmpty(GetPath(entry, <<"message", "toolName">>)) \o " "
        \o TextBlocksOf(entry) \o " " \o ToolBlocksOf(entry)

\* C12: with a free-text query and no other facet set, the per-session filter
\* keeps a message iff the query matches the text made of its role, its tool
\* name, its text blocks and the name and arguments of its tool calls, and keeps
\* any other entry iff the query matches its serialized form.
C12_SearchQueryMatchesComposedText ==
    ActiveFacets = {"searchQuery"} =>
        filteredEntries =
            SelectSeq(EntriesOf(currentSession),
                      LAMBDA entry :
                          IF IsMessage(entry)
                          THEN FuzzyMatch(MessageSearchText(entry), filterState.searchQuery)
                          ELSE FuzzyMatch(JsonText(entry), filterState.searchQuery))

(***************************************************************************)
(* App.tsx: the filter of the global (all-events) view.                    *)
(***************************************************************************)
MaxActiveFacets == 2

TimeWindowValues == <<"15m", "1h", "6h", "24h", "all">>
EventTypeValues ==
    <<"all", "message", "session", "model_change", "thinking_level_change", "custom",
      "compaction">>
ToolCategoryValues == <<"all", "file", "search", "exec", "web", "subagent", "mcp", "other">>

CycleValue(values, current, delta) ==
    LET index == IndexOf(values, current)
        start == IF index >= 0 THEN index ELSE 0
        next == (start + delta + Len(values)) % Len(values)
    IN  values[next + 1]

EventMatchesCategory(event, category) ==
    IF category = "all" THEN TRUE
    ELSE IF ~IsMessage(event.entry) THEN FALSE
    ELSE IF RoleOf(event.entry) = "assistant"
         THEN \E k \in DOMAIN ContentOf(event.entry) :
                /\ IsToolCall(ContentOf(event.entry)[k])
                /\ GetToolCategory(Get(ContentOf(event.entry)[k], "name").v) = category
    ELSE IF RoleOf(event.entry) = "toolResult"
         THEN GetToolCategory(OrEmpty(GetPath(event.entry, <<"message", "toolName">>)))
                  = category
    ELSE FALSE

EventSearchText(event) ==
    LET base == Join(<< event.agentName, event.sessionId, Get(event.entry, "type").v,
                        Get(event.entry, "id").v, Get(event.entry, "timestamp").v >>, " ")
    IN  IF ~IsMessage(event.entry)
        THEN ToLowerCase(base \o " " \o JsonText(event.entry))
        ELSE ToLowerCase(base \o " " \o MessageSearchText(event.entry))

\* the windows a millisecond shorter
EventWindowMsShort(window) ==
    CASE window = "15m" -> 15 * 60 * 1000 - 1
      [] window = "1h" -> 60 * 60 * 1000 - 1
      [] window = "6h" -> 6 * 60 * 60 * 1000 - 1
      [] window = "24h" -> 24 * 60 * 60 * 1000 - 1
      [] OTHER -> NaN

\* null for the window "all"
EventWindowMs(window) ==
    CASE window = "15m" -> 15 * 60 * 1000
      [] window = "1h" -> 60 * 60 * 1000
      [] window = "6h" -> 6 * 60 * 60 * 1000
      [] window = "24h" -> 24 * 60 * 60 * 1000
      [] OTHER -> NaN

\* the tool-name test of filteredAllEvents, for a needle that is not empty
ToolNeedleHits(event, toolNeedle) ==
    IF ~IsMessage(event.entry) THEN FALSE
    ELSE IF RoleOf(event.entry) = "assistant"
         THEN \E k \in DOMAIN ContentOf(event.entry) :
                /\ IsToolCall(ContentOf(event.entry)[k])
                /\ Includes(ToLowerCase(Get(ContentOf(event.entry)[k], "name").v), toolNeedle)
    ELSE IF RoleOf(event.entry) = "toolResult"
         THEN Includes(ToLowerCase(OrEmpty(GetPath(event.entry, <<"message", "toolName">>))),
                       toolNeedle)
    ELSE FALSE

\* the callback of scopedAllEvents.filter
EventPasses(event, filter, t) ==
    LET windowMs == EventWindowMs(filter.timeWindow)
        query == ToLowerCase(Trim(filter.query))
        toolNeedle == ToLowerCase(Trim(filter.toolNameQuery))
        ts == DateGetTime(Get(event.entry, "timestamp").v)
    IN  IF windowMs # NaN /\ t - ts > windowMs THEN FALSE
        ELSE IF filter.eventType # "all" /\ Get(event.entry, "type").v # filter.eventType
             THEN FALSE
        ELSE IF ~EventMatchesCategory(event, filter.toolCategory) THEN FALSE
        ELSE IF toolNeedle # "" /\ ~ToolNeedleHits(event, toolNeedle) THEN FALSE
        ELSE IF filter.onlyErrors /\ ~ErrorMatches(event.entry) THEN FALSE
        ELSE IF query # "" /\ ~Includes(EventSearchText(event), query) THEN FALSE
        ELSE TRUE

FilteredAllEvents(events, filter, t) ==
    SelectSeq(events, LAMBDA event : EventPasses(event, filter, t))

DefaultAllEventsFilter ==
    [ timeWindow |-> "all", eventType |-> "all", toolCategory |-> "all",
      toolNameQuery |-> "", onlyErrors |-> FALSE, query |-> "" ]

(***************************************************************************)
(* The events of the global view: entries of loaded sessions, newest first *)
(* and with valid timestamps, as the merge of useSessions leaves them.     *)
(***************************************************************************)
EntryOfLine(value) == ParseEntry(JsonLine(value)).value

ReadFileResultEvent ==
    GlobalEvent(EntryOfLine(
        JObj([ type |-> JStr("message"), id |-> JStr("r-3"), parentId |-> JStr("a-3"),
               timestamp |-> JStr("1970-01-01T00:15:00Z"),
               message |-> JObj([ role |-> JStr("toolResult"),
                                  content |-> JArr(<<TextBlock>>),
                                  toolName |-> JStr("ReadFile"),
                                  isError |-> JBool(TRUE) ]) ])),
        HistogramSession)

McpResultEvent ==
    GlobalEvent(EntryOfLine(
        JObj([ type |-> JStr("message"), id |-> JStr("r-4"), parentId |-> JStr("a-3"),
               timestamp |-> JStr("1970-01-01T00:10:00.000Z"),
               message |-> JObj([ role |-> JStr("toolResult"),
                                  content |-> JArr(<<>>),
                                  toolName |-> JStr("mcp__read_file") ]) ])),
        HistogramSession)

McpCallsEvent ==
    GlobalEvent(EntryOfLine(
        JObj([ type |-> JStr("message"), id |-> JStr("a-3"), parentId |-> JNull,
               timestamp |-> JStr("1970-01-01T00:10:00Z"),
               message |-> JObj([
                   role |-> JStr("assistant"),
                   content |-> JArr(<<
                       JObj([ type |-> JStr("toolCall"), id |-> JStr("call-3"),
                              name |-> JStr("mcp__search_docs"),
                              arguments |-> JObj([command |-> JStr("ls")]) ]) >>) ]) ])),
        HistogramSession)

ModelChangeEvent ==
    GlobalEvent(EntryOfLine(
        SetPath(ModelChangeLine, <<"timestamp">>, JStr("1970-01-01T00:02:00Z"))),
        HistogramSession)

GlobalEventPool == <<ReadFileResultEvent, McpResultEvent, McpCallsEvent, ModelChangeEvent>>

\* the sublists of the pool of up to MaxEvents events
GlobalEventLists ==
    { SelectSeq(GlobalEventPool, LAMBDA event : event \in chosen) :
        chosen \in { S \in SUBSET { GlobalEventPool[i] : i \in DOMAIN GlobalEventPool } :
                       Cardinality(S) <= MaxEvents } }

\* the texts the user types into the two text fields, a key at a time
ToolNameTexts == {"", "r", "rd", "rdf", "rdfl", "re", "rea", "read"}
QueryTexts == {"", "r", "rd", "rdf", "rdfl", "l", "ls"}
QueryKeys == {"r", "d", "f", "l", "e", "a", "s"}

\* the number of facets of the filter that are set
ActiveCount(filter) ==
    Cardinality({ k \in DOMAIN filter : filter[k] # DefaultAllEventsFilter[k] })

\* setAllEventsFilter(filter) and the render that follows it
SetAllEventsFilter(filter) ==
    /\ ActiveCount(filter) <= MaxActiveFacets
    /\ allEventsFilter' = filter
    /\ filteredAllEvents' = FilteredAllEvents(scopedAllEvents, filter, now)
    /\ UNCHANGED scopedAllEvents
    /\ UNCHANGED nonGlobalVars

CycleTimeWindow(delta) ==
    SetAllEventsFilter([allEventsFilter EXCEPT
        !.timeWindow = CycleValue(TimeWindowValues, @, delta)])

CycleEventType(delta) ==
    SetAllEventsFilter([allEventsFilter EXCEPT
        !.eventType = CycleValue(EventTypeValues, @, delta)])

CycleToolCategory(delta) ==
    SetAllEventsFilter([allEventsFilter EXCEPT
        !.toolCategory = CycleValue(ToolCategoryValues, @, delta)])

SetOnlyErrors(delta) ==
    SetAllEventsFilter([allEventsFilter EXCEPT !.onlyErrors = (delta > 0)])

TypeToolName(ch) ==
    /\ allEventsFilter.toolNameQuery \o ch \in ToolNameTexts
    /\ SetAllEventsFilter([allEventsFilter EXCEPT !.toolNameQuery = @ \o ch])

TypeQuery(ch) ==
    /\ allEventsFilter.query \o ch \in QueryTexts
    /\ SetAllEventsFilter([allEventsFilter EXCEPT !.query = @ \o ch])

\* text.slice(0, -1)
SliceLast(text) == IF text = "" THEN "" ELSE SubSeq(text, 1, Len(text) - 1)

BackspaceToolName ==
    SetAllEventsFilter([allEventsFilter EXCEPT !.toolNameQuery = SliceLast(@)])

BackspaceQuery ==
    SetAllEventsFilter([allEventsFilter EXCEPT !.query = SliceLast(@)])

ClearAllFilters == SetAllEventsFilter(DefaultAllEventsFilter)

GlobalInit ==
    /\ scopedAllEvents \in GlobalEventLists
    /\ allEventsFilter = DefaultAllEventsFilter
    /\ filteredAllEvents = scopedAllEvents

GlobalIdle ==
    /\ scopedAllEvents = <<>>
    /\ allEventsFilter = DefaultAllEventsFilter
    /\ filteredAllEvents = <<>>

GlobalNext ==
    \/ \E delta \in {1, -1} : CycleTimeWindow(delta)
    \/ \E delta \in {1, -1} : CycleEventType(delta)
    \/ \E delta \in {1, -1} : CycleToolCategory(delta)
    \/ \E delta \in {1, -1} : SetOnlyErrors(delta)
    \/ \E ch \in QueryKeys : TypeToolName(ch)
    \/ \E ch \in QueryKeys : TypeQuery(ch)
    \/ BackspaceToolName
    \/ BackspaceQuery
    \/ ClearAllFilters

(***************************************************************************)
(* Properties of the filter of the global view.                            *)
(***************************************************************************)
ActiveGlobalFacets ==
    { k \in DOMAIN allEventsFilter : allEventsFilter[k] # DefaultAllEventsFilter[k] }

IsKept(event) == \E n \in DOMAIN filteredAllEvents : filteredAllEvents[n] = event

\* the names of the tools of an event: those of the tool calls of an assistant
\* message, the tool name of a tool result
ToolNamesOf(event) ==
    IF ~IsMessage(event.entry) THEN {}
    ELSE IF RoleOf(event.entry) = "assistant"
         THEN { Get(ContentOf(event.entry)[k], "name").v :
                  k \in { n \in DOMAIN ContentOf(event.entry) :
                            IsToolCall(ContentOf(event.entry)[n]) } }
    ELSE IF RoleOf(event.entry) = "toolResult"
         THEN { OrEmpty(GetPath(event.entry, <<"message", "toolName">>)) }
    ELSE {}

\* C13: in the global filter the tool-name facet and the free-text query match
\* as ordered subsequences, whatever the case: with the tool-name facet alone an
\* event is kept iff the query is an ordered subsequence of one of its tool
\* names, and with the free-text query alone iff it is one of its search text.
C13_GlobalFilterMatchesFuzzily ==
    /\ ActiveGlobalFacets = {"toolNameQuery"} =>
         \A i \in DOMAIN scopedAllEvents :
             IsKept(scopedAllEvents[i]) <=>
                 \E name \in ToolNamesOf(scopedAllEvents[i]) :
                     FuzzyMatch(name, Trim(allEventsFilter.toolNameQuery))
    /\ ActiveGlobalFacets = {"query"} =>
         \A i \in DOMAIN scopedAllEvents :
             IsKept(scopedAllEvents[i]) <=>
                 FuzzyMatch(EventSearchText(scopedAllEvents[i]), Trim(allEventsFilter.query))

(***************************************************************************)
(* Properties of the facets of the per-session filter.                     *)
(***************************************************************************)
\* C14: with the entryType facet alone, "user", "assistant" and "tool" keep
\* exactly the messages of role user, assistant and toolResult, "system" keeps
\* exactly the entries that are no message, and "all" keeps every entry.
C14_EntryTypeSelectsItsClass ==
    ActiveFacets \subseteq {"entryType"} =>
        filteredEntries =
            SelectSeq(EntriesOf(currentSession),
                      LAMBDA entry :
                          CASE filterState.entryType = "all" -> TRUE
                            [] filterState.entryType = "user" ->
                                 IsMessage(entry) /\ RoleOf(entry) = "user"
                            [] filterState.entryType = "assistant" ->
                                 IsMessage(entry) /\ RoleOf(entry) = "assistant"
                            [] filterState.entryType = "tool" ->
                                 IsMessage(entry) /\ RoleOf(entry) = "toolResult"
                            [] filterState.entryType = "system" -> ~IsMessage(entry))


\* the category of a tool name when the prefix rule of "mcp" is tried first
CategoryWithMcpFirst(toolName) ==
    IF StartsWith(ToLowerCase(toolName), "mcp__") THEN "mcp" ELSE GetToolCategory(toolName)

\* C15: every tool name has one category, that of the first matching rule, and
\* the prefix rule of "mcp" wins over the substring rules of the other
\* categories: with the toolCategory facet alone, the global filter keeps an event
\* iff one of its tool names has that category, a name that starts with "mcp__"
\* having the category "mcp" whatever else it contains, and a name that matches
\* no rule the category "other".
C15_McpPrefixWinsAndOtherIsDefault ==
    ActiveGlobalFacets = {"toolCategory"} =>
        \A i \in DOMAIN scopedAllEvents :
            IsKept(scopedAllEvents[i]) <=>
                \E name \in ToolNamesOf(scopedAllEvents[i]) :
                    CategoryWithMcpFirst(name) = allEventsFilter.toolCategory


\* C16: with a tool category and onlyErrors set, every entry the per-session
\* filter returns is a tool result of that category whose isError is true, and
\* with no other facet set it returns all of them, in the order of the session;
\* no assistant message, user message or non-message entry is returned.
C16_CategoryAndErrorsKeepFailedResults ==
    LET wanted(entry) ==
            /\ IsMessage(entry)
            /\ RoleOf(entry) = "toolResult"
            /\ GetToolCategory(OrEmpty(GetPath(entry, <<"message", "toolName">>)))
                   = advancedFilterState.toolCategory
            /\ HasErrorFlag(entry)
    IN  (advancedFilterState.toolCategory # "all" /\ advancedFilterState.onlyErrors) =>
            /\ \A n \in DOMAIN filteredEntries : wanted(filteredEntries[n])
            /\ ActiveFacets = {"toolCategory", "onlyErrors"} =>
                   filteredEntries = SelectSeq(EntriesOf(currentSession), wanted)

\* the category exec and onlyErrors are set on a session of an assistant message
\* that calls bash and of the failed result of bash: the result alone is returned
C16_Witness ==
    /\ ActiveFacets = {"toolCategory", "onlyErrors"}
    /\ Len(EntriesOf(currentSession)) = 2
    /\ ToolCategoryMatches(EntriesOf(currentSession)[1], "exec")
    /\ RoleOf(EntriesOf(currentSession)[1]) = "assistant"
    /\ filteredEntries = << EntriesOf(currentSession)[2] >>

(***************************************************************************)
(* session-loader: the scan of the agents directory.  The directory holds  *)
(* agent directories and other files; an agent directory holds a sessions  *)
(* directory of session files.  readdir throws for a directory that cannot *)
(* be listed, readFile for a file that cannot be read.                     *)
(***************************************************************************)
\* str.endsWith(suffix)
EndsWith(str, suffix) ==
    /\ Len(str) >= Len(suffix)
    /\ SubSeq(str, Len(str) - Len(suffix) + 1, Len(str)) = suffix

IsDeletedFile(filename) == Includes(filename, ".deleted.")

\* readdir(dir): the entries of the directory, or an error thrown
Readdir(dir) == [threw |-> ~dir.listable, value |-> dir.entries]

\* readFile(file): the lines of the file, or an error thrown
ReadFile(file) == [threw |-> ~file.readable, value |-> file.lines]

\* [...entries].reverse().find(test): the last entry that passes, or undefined
FindLast(entries, Test(_)) ==
    LET passing == { i \in DOMAIN entries : Test(entries[i]) }
    IN  IF passing = {} THEN Undefined
        ELSE entries[CHOOSE i \in passing : \A j \in passing : j <= i]

IsModelChange(entry) == Get(entry, "type") = JStr("model_change")

\* the first model_change entry of the session
EarliestModelChange(entries) ==
    LET passing == { i \in DOMAIN entries : IsModelChange(entries[i]) }
    IN  IF passing = {} THEN Undefined
        ELSE entries[CHOOSE i \in passing : \A j \in passing : i <= j]

LatestModelChange(entries) == FindLast(entries, IsModelChange)

\* the last assistant message whose field (model or provider) is truthy
LatestAssistantWith(entries, field) ==
    FindLast(entries,
             LAMBDA e : /\ IsMessage(e)
                        /\ RoleOf(e) = "assistant"
                        /\ Truthy(GetPath(e, <<"message", field>>)))

\* a?.b || c?.message.d || "unknown"
FirstTruthy(a, b, otherwise) ==
    IF Truthy(a) THEN a.v ELSE IF Truthy(b) THEN b.v ELSE otherwise

\* the model and provider of extractSessionMetadata
MetadataModel(entries) ==
    FirstTruthy(Get(LatestModelChange(entries), "modelId"),
                GetPath(LatestAssistantWith(entries, "model"), <<"message", "model">>),
                "unknown")

MetadataProvider(entries) ==
    FirstTruthy(Get(LatestModelChange(entries), "provider"),
                GetPath(LatestAssistantWith(entries, "provider"), <<"message", "provider">>),
                "unknown")

\* sessionEntry?.id || "unknown"
MetadataId(entries) ==
    LET found == { i \in DOMAIN entries : Get(entries[i], "type") = JStr("session") }
        sessionEntry == IF found = {} THEN Undefined
                        ELSE entries[CHOOSE i \in found : \A j \in found : i <= j]
    IN  FirstTruthy(Get(sessionEntry, "id"), Undefined, "unknown")

\* the latest valid timestamp of the entries, or now
MetadataLastActivity(entries, t) ==
    LET validTimestamps ==
            { ts \in { DateGetTime(Get(entries[i], "timestamp").v) : i \in DOMAIN entries } :
                NumberIsFinite(ts) /\ ts > 0 /\ ts <= t + FiveMinutes }
    IN  IF validTimestamps # {} THEN MaxOf(validTimestamps) ELSE t

\* the flags of a summary
FlagsOf(errors, compactionCount, model) ==
    (IF errors > 0 THEN <<"err">> ELSE <<>>)
        \o (IF compactionCount > 0 THEN <<"compact">> ELSE <<>>)
        \o (IF model = "unknown" THEN <<"model?">> ELSE <<>>)

\* the summary loadSessionSummary builds from the entries of a file
SummaryOfEntries(agentName, filePath, filename, entries, t) ==
    [ id |-> MetadataId(entries), agentName |-> agentName, filePath |-> filePath,
      lastActivity |-> MetadataLastActivity(entries, t),
      model |-> MetadataModel(entries), provider |-> MetadataProvider(entries),
      eventCount |-> Len(entries), errorCount |-> CalculateStats(entries).errors,
      flags |-> FlagsOf(CalculateStats(entries).errors,
                        Len(SelectSeq(entries, LAMBDA e : Get(e, "type") = JStr("compaction"))),
                        MetadataModel(entries)),
      isDeleted |-> IsDeletedFile(filename) ]

\* loadSessionSummary(agentName, filePath) of session-loader, on the file at
\* that path: the summary, or null when the file cannot be read
SummaryOfFile(agentName, filePath, filename, file, t) ==
    IF ReadFile(file).threw THEN Null
    ELSE SummaryOfEntries(agentName, filePath, filename,
                          ParseJsonlContent(ReadFile(file).value), t)

\* the file filter of loadAgents without the test of the deleted marker
IsSessionFileOrDeleted(filename) == EndsWith(filename, ".jsonl")

\* f.endsWith(".jsonl") && !f.includes(".deleted.")
IsSessionFile(filename) == EndsWith(filename, ".jsonl") /\ ~Includes(filename, ".deleted.")

\* the agent of one directory, as loadAgents pushes it, or nothing when its
\* sessions directory cannot be listed
AgentsOfDir(dir, t) ==
    LET sessionFiles == Readdir(dir.sessions)
    IN  IF sessionFiles.threw THEN <<>>
        ELSE LET jsonlFiles == SelectSeq(sessionFiles.value,
                                         LAMBDA f : IsSessionFile(f.name))
                 loaded == MapSeq(LAMBDA f : SummaryOfFile(dir.name,
                                                 dir.name \o "/sessions/" \o f.name,
                                                 f.name, f, t),
                                  jsonlFiles)
             IN  IF Len(jsonlFiles) > 0
                 THEN << [ name |-> dir.name, path |-> dir.name,
                           sessionCount |-> Len(jsonlFiles),
                           sessions |-> SelectSeq(loaded, LAMBDA s : s # Null) ] >>
                 ELSE <<>>

\* the scan that aborts at the first sessions directory that cannot be listed
RECURSIVE AgentsOfDirsAborting(_, _)
AgentsOfDirsAborting(dirs, t) ==
    IF dirs = <<>> THEN <<>>
    ELSE IF ~Head(dirs).isDirectory THEN AgentsOfDirsAborting(Tail(dirs), t)
    ELSE IF Readdir(Head(dirs).sessions).threw THEN <<>>
    ELSE AgentsOfDir(Head(dirs), t) \o AgentsOfDirsAborting(Tail(dirs), t)

RECURSIVE AgentsOfDirs(_, _)
\* the loop of loadAgents over the entries of the agents directory
AgentsOfDirs(dirs, t) ==
    IF dirs = <<>> THEN <<>>
    ELSE IF ~Head(dirs).isDirectory THEN AgentsOfDirs(Tail(dirs), t)
    ELSE AgentsOfDir(Head(dirs), t) \o AgentsOfDirs(Tail(dirs), t)

RECURSIVE InsertAgent(_, _)
InsertAgent(agent, sorted) ==
    IF sorted = <<>> THEN <<agent>>
    ELSE IF Head(sorted).sessionCount - agent.sessionCount < 0
         THEN <<agent>> \o sorted
         ELSE <<Head(sorted)>> \o InsertAgent(agent, Tail(sorted))

\* the agents in the order loadAgents pushed them, without the sort
SortAgentsSkipped(list) == list

RECURSIVE SortAgents(_)
\* agents.sort((a, b) => b.sessionCount - a.sessionCount), a stable sort
SortAgents(list) ==
    IF list = <<>> THEN <<>>
    ELSE InsertAgent(list[Len(list)], SortAgents(SubSeq(list, 1, Len(list) - 1)))

\* loadAgents(): the agents, and whether console.error was called; it throws
\* nothing
LoadAgents(root, t) ==
    LET agentDirs == Readdir(root)
    IN  IF agentDirs.threw THEN [agents |-> <<>>, logged |-> TRUE]
        ELSE [agents |-> SortAgents(AgentsOfDirs(agentDirs.value, t)), logged |-> FALSE]

RECURSIVE FlatSessions(_)
\* agents.flatMap((agent) => agent.sessions)
FlatSessions(list) ==
    IF list = <<>> THEN <<>> ELSE Head(list).sessions \o FlatSessions(Tail(list))

\* getAllSessionSummaries() of session-loader, which scans again
AllSessionSummaries(root, t) == FlatSessions(LoadAgents(root, t).agents)

\* await Promise.all([loadAgents(), getAllSessionSummaries()]): neither promise
\* is ever rejected
AwaitScans(root, t) ==
    [ threw |-> FALSE, loadedAgents |-> LoadAgents(root, t).agents,
      loadedSessions |-> AllSessionSummaries(root, t) ]

(***************************************************************************)
(* The agents directory: the agents main, helper and archive and a file    *)
(* that is no directory.  main holds a session file of up to MaxLines      *)
(* lines and a session file with the deleted marker in its name, helper    *)
(* two session files, archive a session file with the deleted marker       *)
(* only.  The directory does not change while the program runs.            *)
(***************************************************************************)
BareModelChangeLine ==
    JObj([ type |-> JStr("model_change"), id |-> JStr("m-2"), parentId |-> JStr("m-1"),
           timestamp |-> JStr("2026-02-25T10:00:02Z") ])

OtherModelLine ==
    JObj([ type |-> JStr("message"), id |-> JStr("a-4"), parentId |-> JNull,
           timestamp |-> JStr("2026-02-25T10:00:03Z"),
           message |-> JObj([ role |-> JStr("assistant"), content |-> JArr(<<>>),
                              provider |-> JStr("openai"), model |-> JStr("model-b") ]) ])

ModelOnlyLine ==
    JObj([ type |-> JStr("message"), id |-> JStr("a-5"), parentId |-> JStr("a-4"),
           timestamp |-> JStr("2026-02-25T10:00:04Z"),
           message |-> JObj([ role |-> JStr("assistant"), content |-> JArr(<<>>),
                              model |-> JStr("model-c") ]) ])

MetadataLines ==
    { JsonLine(ModelChangeLine), JsonLine(BareModelChangeLine), JsonLine(OtherModelLine),
      JsonLine(ModelOnlyLine) }

MetadataFiles ==
    { lines \o <<BlankLine("")>> : lines \in SeqsUpTo(MetadataLines, MaxLines) }

SessionFileOf(name, readable, lines) ==
    [name |-> name, readable |-> readable, lines |-> lines]

OneSessionLine == <<JsonLine(SessionLine), BlankLine("")>>

AgentsRoots ==
    { [ listable |-> rootListable,
        entries |-> <<
            [ name |-> "main", isDirectory |-> TRUE,
              sessions |-> [ listable |-> mainListable,
                             entries |-> << SessionFileOf("s1.jsonl", s1Readable, s1Lines),
                                            SessionFileOf("s2.deleted.jsonl", TRUE,
                                                          OneSessionLine) >> ] ],
            [ name |-> "config.json", isDirectory |-> FALSE ],
            [ name |-> "helper", isDirectory |-> TRUE,
              sessions |-> [ listable |-> helperListable,
                             entries |-> << SessionFileOf("s3.jsonl", s3Readable,
                                                          OneSessionLine),
                                            SessionFileOf("s4.jsonl", TRUE,
                                                          OneSessionLine) >> ] ],
            [ name |-> "archive", isDirectory |-> TRUE,
              sessions |-> [ listable |-> TRUE,
                             entries |-> << SessionFileOf("s5.deleted.jsonl", TRUE,
                                                          OneSessionLine) >> ] ] >> ] :
        rootListable \in BOOLEAN, mainListable \in BOOLEAN, helperListable \in BOOLEAN,
        s1Readable \in BOOLEAN, s3Readable \in BOOLEAN, s1Lines \in MetadataFiles }

(***************************************************************************)
(* useSessions: loadData and refresh, as far as agents, sessions,          *)
(* isLoading and error go; the merge of the events they start is above.    *)
(* One scan runs at a time.                                                *)
(***************************************************************************)
\* the part of loadData and refresh after the await of the scan: the try block,
\* the catch and the finally.  loadData does not await preloadAllEvents, refresh
\* does, and reaches its finally when that returns.
ScanReturns ==
    /\ pendingScan \in {"mount", "refresh"}
    /\ LET scan == AwaitScans(agentsRoot, now)
       IN  IF scan.threw
           THEN /\ error' = IF pendingScan = "mount"
                            THEN [message |-> "Failed to load sessions"]
                            ELSE [message |-> "Failed to refresh"]
                /\ isLoading' = FALSE
                /\ pendingScan' = "none"
                /\ UNCHANGED <<agents, sessionSummaries>>
           ELSE /\ agents' = scan.loadedAgents
                /\ sessionSummaries' = SortSessions(scan.loadedSessions)
                /\ isLoading' = (pendingScan = "refresh")
                /\ pendingScan' = IF pendingScan = "refresh" THEN "merge" ELSE "none"
                /\ UNCHANGED error
    /\ UNCHANGED agentsRoot
    /\ UNCHANGED nonScanVars

\* await preloadAllEvents(sortedSessions, true) of refresh returns: the finally
RefreshMergeReturns ==
    /\ pendingScan = "merge"
    /\ isLoading' = FALSE
    /\ pendingScan' = "none"
    /\ UNCHANGED <<agentsRoot, agents, sessionSummaries, error>>
    /\ UNCHANGED nonScanVars

\* refresh(), up to its await
RefreshSessions ==
    /\ pendingScan = "none"
    /\ isLoading' = TRUE
    /\ error' = Null
    /\ pendingScan' = "refresh"
    /\ UNCHANGED <<agentsRoot, agents, sessionSummaries>>
    /\ UNCHANGED nonScanVars

\* the hook is mounted and loadData has run up to its await
ScanInit ==
    /\ agentsRoot \in AgentsRoots
    /\ agents = <<>>
    /\ sessionSummaries = <<>>
    /\ isLoading = TRUE
    /\ error = Null
    /\ pendingScan = "mount"

ScanIdle ==
    /\ agentsRoot = [listable |-> FALSE, entries |-> <<>>]
    /\ agents = <<>>
    /\ sessionSummaries = <<>>
    /\ isLoading = TRUE
    /\ error = Null
    /\ pendingScan = "none"

ScanNext ==
    \/ ScanReturns
    \/ RefreshMergeReturns
    \/ RefreshSessions

(***************************************************************************)
(* Properties of the scan.                                                 *)
(***************************************************************************)
\* the agent directories of the agents directory
AgentDirs == SelectSeq(agentsRoot.entries, LAMBDA dir : dir.isDirectory)

\* the session files of the agents directory, each with its agent and its path
FilesOnDisk ==
    { [ agentName |-> AgentDirs[d].name,
        filePath |-> AgentDirs[d].name \o "/sessions/" \o AgentDirs[d].sessions.entries[f].name,
        dirListable |-> AgentDirs[d].sessions.listable,
        file |-> AgentDirs[d].sessions.entries[f] ] :
        <<d, f>> \in { p \in (DOMAIN AgentDirs) \X (1..2) :
                         p[2] \in DOMAIN AgentDirs[p[1]].sessions.entries } }

\* the entries of the file a summary was made from
EntriesOfSummary(summary) ==
    ParseJsonlContent((CHOOSE on \in FilesOnDisk : on.filePath = summary.filePath).file.lines)

ScanFinished == pendingScan = "none" /\ ~isLoading

SummariesSet == { sessionSummaries[n] : n \in DOMAIN sessionSummaries }

\* the last entry of the list that passes the test, as a set of at most one
LastWhere(entries, Test(_)) ==
    { entries[i] : i \in { j \in DOMAIN entries :
                             Test(entries[j]) /\ \A k \in DOMAIN entries :
                                                     k > j => ~Test(entries[k]) } }

IsAssistant(entry) == IsMessage(entry) /\ RoleOf(entry) = "assistant"

\* the value resolved from the last model_change entry if there is one, else
\* from the last assistant message that carries the field, else "unknown"
ResolvedChangeFirst(entries, changeField, messageField) ==
    LET changes == LastWhere(entries, IsModelChange)
        carriers == LastWhere(entries,
                        LAMBDA e : IsAssistant(e)
                                     /\ OrEmpty(GetPath(e, <<"message", messageField>>)) # "")
    IN  IF changes # {}
        THEN { OrEmpty(Get(e, changeField)) : e \in changes }
        ELSE IF carriers # {}
        THEN { GetPath(e, <<"message", messageField>>).v : e \in carriers }
        ELSE {"unknown"}

\* the value resolved from the last model_change entry if its field is not
\* empty, else from the last assistant message that carries the field, else
\* "unknown"
ResolvedNonEmptyFirst(entries, changeField, messageField) ==
    LET changes == { e \in LastWhere(entries, IsModelChange) :
                       OrEmpty(Get(e, changeField)) # "" }
        carriers == LastWhere(entries,
                        LAMBDA e : IsAssistant(e)
                                     /\ OrEmpty(GetPath(e, <<"message", messageField>>)) # "")
    IN  IF changes # {}
        THEN { Get(e, changeField).v : e \in changes }
        ELSE IF carriers # {}
        THEN { GetPath(e, <<"message", messageField>>).v : e \in carriers }
        ELSE {"unknown"}

\* C17, as stated: the model and the provider of a session come from its last
\* model_change entry whenever it has one, and an assistant message is consulted
\* only when it has none.
C17_ModelChangeAlwaysWins ==
    \A summary \in SummariesSet :
        /\ {summary.model} = ResolvedChangeFirst(EntriesOfSummary(summary), "modelId", "model")
        /\ {summary.provider} =
               ResolvedChangeFirst(EntriesOfSummary(summary), "provider", "provider")

\* C17, amended: the model and the provider of a session are resolved each on
\* its own: from the last model_change entry if its modelId (its provider) is
\* not empty, else from the last assistant message whose model (provider) is not
\* empty, else "unknown".
C17_FirstNonEmptySourceWins ==
    \A summary \in SummariesSet :
        /\ {summary.model} =
               ResolvedNonEmptyFirst(EntriesOfSummary(summary), "modelId", "model")
        /\ {summary.provider} =
               ResolvedNonEmptyFirst(EntriesOfSummary(summary), "provider", "provider")

\* a scanned session whose last entry is a model_change without modelId and
\* provider, after an assistant message of model-b: the message is consulted
C17_Witness ==
    /\ ScanFinished
    /\ \E summary \in SummariesSet :
         LET entries == EntriesOfSummary(summary)
         IN  /\ Len(entries) = 2
             /\ IsAssistant(entries[1])
             /\ IsModelChange(entries[2])
             /\ Get(entries[2], "modelId") = JStr("")
             /\ summary.model = "model-b"
             /\ summary.provider = "openai"


\* the agent of that name in the agents state, as a set of at most one
AgentsNamed(name) == { agents[n] : n \in { k \in DOMAIN agents : agents[k].name = name } }

\* the files of an agent directory that the scan can list
ListedFiles(agentName) ==
    { on \in FilesOnDisk : on.agentName = agentName /\ on.dirListable /\ agentsRoot.listable }

HasDeletedMarker(on) == Includes(on.file.name, ".deleted.")

C19_RootFailureSetsError ==
    (ScanFinished /\ ~agentsRoot.listable) =>
        /\ agents = <<>>
        /\ sessionSummaries = <<>>
        /\ error # Null


\* the files of an agent a scan makes a summary of: the listed files without the
\* deleted marker that can be read
SummarisedFiles(agentName) ==
    { on \in ListedFiles(agentName) : ~HasDeletedMarker(on) /\ on.file.readable }

\* the files of an agent that loadAgents counts: the listed .jsonl files
\* without the deleted marker
QualifyingFiles(agentName) ==
    { on \in ListedFiles(agentName) : IsSessionFile(on.file.name) }

PathsOf(summaries) == { summaries[n].filePath : n \in DOMAIN summaries }

\* C20: a failure of one agent or of one file never aborts the scan.  Once a
\* scan of a listable agents directory has finished, an agent is missing only
\* when its own sessions directory cannot be listed, a session is missing only
\* when its own file cannot be read, and every other agent and session is there,
\* in the agents and in the sessions of the hook.
C20_LocalFailuresOmitOnlyTheirOwn ==
    (ScanFinished /\ agentsRoot.listable) =>
        /\ \A d \in DOMAIN AgentDirs :
             IF AgentDirs[d].sessions.listable /\ QualifyingFiles(AgentDirs[d].name) # {}
             THEN \E agent \in AgentsNamed(AgentDirs[d].name) :
                      PathsOf(agent.sessions) =
                          { on.filePath : on \in SummarisedFiles(AgentDirs[d].name) }
             ELSE AgentsNamed(AgentDirs[d].name) = {}
        /\ PathsOf(sessionSummaries) =
               UNION { { on.filePath : on \in SummarisedFiles(AgentDirs[d].name) } :
                         d \in DOMAIN AgentDirs }

\* a scan has finished where the sessions directory of main cannot be listed and
\* a file of helper cannot be read: helper is there with its other session
C20_Witness ==
    /\ ScanFinished
    /\ agentsRoot.listable
    /\ \E on \in FilesOnDisk : on.agentName = "main" /\ ~on.dirListable
    /\ \E on \in ListedFiles("helper") : ~on.file.readable
    /\ AgentsNamed("main") = {}
    /\ \E agent \in AgentsNamed("helper") :
         PathsOf(agent.sessions) = {"helper/sessions/s4.jsonl"}
    /\ PathsOf(sessionSummaries) = {"helper/sessions/s4.jsonl"}


\* C21: the agents of a scan hold no agent without a qualifying session file,
\* and they are in non-increasing order of sessionCount.
C21_AgentsHaveFilesAndDescend ==
    /\ \A n \in DOMAIN agents :
         /\ agents[n].sessionCount > 0
         /\ QualifyingFiles(agents[n].name) # {}
    /\ \A n \in DOMAIN agents :
         \A k \in DOMAIN agents : n < k => agents[n].sessionCount >= agents[k].sessionCount

\* a scan has finished on a directory that lists main with one qualifying file
\* before helper with two and archive with none: helper is first, main second,
\* archive is not there
C21_Witness ==
    /\ ScanFinished
    /\ Len(agents) = 2
    /\ agents[1].name = "helper" /\ agents[1].sessionCount = 2
    /\ agents[2].name = "main" /\ agents[2].sessionCount = 1
    /\ \E on \in ListedFiles("archive") : TRUE
    /\ AgentsNamed("archive") = {}

(***************************************************************************)
(* The time window of the global view: events of every age around each     *)
(* window, and one of the future, at a time of day Date.now() later than   *)
(* the longest window.  The user cycles the window.                        *)
(***************************************************************************)
WindowNow == DateGetTime("1970-01-02T01:00:00Z")

EventAt(timestamp) ==
    GlobalEvent(EntryOfLine(SetPath(ModelChangeLine, <<"timestamp">>, JStr(timestamp))),
                HistogramSession)

\* newest first, as the merge of useSessions leaves them
WindowEventPool ==
    << EventAt("1970-01-02T01:02:00Z"),
       EventAt("1970-01-02T00:45:00Z"), EventAt("1970-01-02T00:44:59.999Z"),
       EventAt("1970-01-02T00:00:00Z"), EventAt("1970-01-01T23:59:59.999Z"),
       EventAt("1970-01-01T19:00:00Z"), EventAt("1970-01-01T18:59:59.999Z"),
       EventAt("1970-01-01T01:00:00Z"), EventAt("1970-01-01T00:59:59.999Z") >>

WindowEventLists ==
    { SelectSeq(WindowEventPool, LAMBDA event : event \in chosen) :
        chosen \in { S \in SUBSET { WindowEventPool[i] : i \in DOMAIN WindowEventPool } :
                       Cardinality(S) <= MaxEvents } }

WindowInit ==
    /\ now = WindowNow
    /\ scopedAllEvents \in WindowEventLists
    /\ allEventsFilter = DefaultAllEventsFilter
    /\ filteredAllEvents = scopedAllEvents

WindowNext ==
    \/ CycleTimeWindow(1)
    \/ CycleTimeWindow(-1)

(***************************************************************************)
(* Properties of the time window.                                          *)
(***************************************************************************)
\* the length of a window in minutes
WindowMinutes(window) ==
    CASE window = "15m" -> 15 [] window = "1h" -> 60 [] window = "6h" -> 360
      [] window = "24h" -> 1440

EventTimeOf(event) == DateGetTime(Get(event.entry, "timestamp").v)

\* the event is older than now - window
IsOlderThanWindow(event, window) ==
    EventTimeOf(event) < now - WindowMinutes(window) * 60 * 1000

\* C22: the time window removes exactly the events older than now - window for
\* 15m, 1h, 6h and 24h, so an event exactly one window old and an event of the
\* future are kept, and it removes nothing for "all".
C22_TimeWindowRemovesExactlyTheOlder ==
    ActiveGlobalFacets \subseteq {"timeWindow"} =>
        filteredAllEvents =
            IF allEventsFilter.timeWindow = "all" THEN scopedAllEvents
            ELSE SelectSeq(scopedAllEvents,
                           LAMBDA event : ~IsOlderThanWindow(event, allEventsFilter.timeWindow))

\* with a window set, the list holds an event exactly one window old, one a
\* millisecond older and one of the future: the first and the last are kept and
\* the second is removed
C22_Witness ==
    /\ allEventsFilter.timeWindow # "all"
    /\ \E i, j, k \in DOMAIN scopedAllEvents :
         /\ EventTimeOf(scopedAllEvents[i]) > now
         /\ EventTimeOf(scopedAllEvents[j]) =
                now - WindowMinutes(allEventsFilter.timeWindow) * 60 * 1000
         /\ EventTimeOf(scopedAllEvents[k]) =
                now - WindowMinutes(allEventsFilter.timeWindow) * 60 * 1000 - 1
         /\ filteredAllEvents = <<scopedAllEvents[i], scopedAllEvents[j]>>

(***************************************************************************)
(* AllEventsViewer: expandHistogramForDisplay, the resample of the counts  *)
(* of the histogram onto the columns of the display.  (i / width) *        *)
(* counts.length is a product of doubles: where i * counts.length / width  *)
(* is a whole number the product can fall just below it, as                *)
(* (7 / 10) * 90 = 62.99999999999999, and Math.floor then gives one less.  *)
(* sparkRounding holds the i where it does.                                *)
(***************************************************************************)
MaxBuckets == 4
MaxWidth == 5
MaxCount == 2

\* Math.floor((i / width) * length)
ScaledFloor(i, width, length, rounding) ==
    IF i \in rounding THEN (i * length) \div width - 1 ELSE (i * length) \div width

ColumnStart(i, width, length, rounding) == ScaledFloor(i, width, length, rounding)

\* Math.max(start + 1, Math.floor(((i + 1) / width) * counts.length))
ColumnEnd(i, width, length, rounding) ==
    Max(ColumnStart(i, width, length, rounding) + 1,
        ScaledFloor(i + 1, width, length, rounding))

\* the first bucket of the range alone
ColumnValueSampled(counts, first, end) ==
    IF first + 1 \in DOMAIN counts THEN counts[first + 1] ELSE 0

\* the loop over j from start to end - 1, counts of 0-based index j
ColumnValue(counts, first, end) ==
    MaxOf({0} \cup { counts[j + 1] : j \in { k \in first..(end - 1) : k + 1 \in DOMAIN counts } })

ExpandHistogramForDisplay(counts, width, rounding) ==
    IF Len(counts) = 0 \/ width <= 0 THEN <<>>
    ELSE IF Len(counts) = width THEN counts
    ELSE [ column \in 1..width |->
             ColumnValue(counts,
                         ColumnStart(column - 1, width, Len(counts), rounding),
                         ColumnEnd(column - 1, width, Len(counts), rounding)) ]

\* the i of 1..width-1 where i * length / width is a whole number
WholeBounds(width, length) ==
    { i \in 1..(width - 1) : (i * length) % width = 0 }

\* the render of AllEventsViewer, as far as the sparkline goes
RenderSparkline ==
    /\ ~sparkDone
    /\ sparkline' = ExpandHistogramForDisplay(sparkCounts, sparkWidth, sparkRounding)
    /\ sparkDone' = TRUE
    /\ UNCHANGED <<sparkCounts, sparkWidth, sparkRounding>>
    /\ UNCHANGED nonSparkVars

SparkInit ==
    /\ sparkCounts \in SeqsUpTo(0..MaxCount, MaxBuckets)
    /\ sparkWidth \in 0..MaxWidth
    /\ sparkRounding \in SUBSET WholeBounds(sparkWidth, Len(sparkCounts))
    /\ sparkDone = FALSE
    /\ sparkline = <<>>

SparkIdle ==
    /\ sparkCounts = <<>>
    /\ sparkWidth = 0
    /\ sparkRounding = {}
    /\ sparkDone = FALSE
    /\ sparkline = <<>>

SparkNext == RenderSparkline

(***************************************************************************)
(* Properties of the sparkline.                                            *)
(***************************************************************************)
\* the source buckets of a column, 1-based: the column itself when the counts
\* are as many as the columns, else from the start to the end of the column
SourceRange(column) ==
    IF Len(sparkCounts) = sparkWidth THEN {column}
    ELSE { j \in DOMAIN sparkCounts :
             /\ ColumnStart(column - 1, sparkWidth, Len(sparkCounts), sparkRounding) < j
             /\ j <= ColumnEnd(column - 1, sparkWidth, Len(sparkCounts), sparkRounding) }

ValuesOf(list) == { list[n] : n \in DOMAIN list }

\* C23: for counts that are not empty and a width above 0 the sparkline has
\* exactly width columns, each the maximum of the source buckets of its range,
\* and every source bucket is in the range of a column: the largest count is in
\* the sparkline, and a bucket that alone is not 0 is not lost.
C23_SparklineMaxPoolsEveryBucket ==
    (sparkDone /\ Len(sparkCounts) > 0 /\ sparkWidth > 0) =>
        /\ Len(sparkline) = sparkWidth
        /\ \A column \in 1..sparkWidth :
             /\ SourceRange(column) # {}
             /\ sparkline[column] = MaxOf({ sparkCounts[j] : j \in SourceRange(column) })
        /\ \A j \in DOMAIN sparkCounts : \E column \in 1..sparkWidth : j \in SourceRange(column)
        /\ MaxOf(ValuesOf(sparkline)) = MaxOf(ValuesOf(sparkCounts))
        /\ \A j \in DOMAIN sparkCounts :
             sparkCounts[j] > 0 => \E column \in 1..sparkWidth : sparkline[column] >= sparkCounts[j]

\* four buckets of which the second alone is not 0 were drawn on two columns:
\* the first column shows it
C23_Witness ==
    /\ sparkDone
    /\ sparkCounts = <<0, 2, 0, 0>>
    /\ sparkWidth = 2
    /\ sparkline = <<2, 0>>

(***************************************************************************)
(* useSessions: selectSession next to loadData and refresh.  The session   *)
(* list is open while a selection loads, so the user can select again      *)
(* before the first loadSession has returned, and the loads return in any  *)
(* order.                                                                  *)
(***************************************************************************)
MaxSelections == 2

\* loadSession(summary.agentName, summary.filePath): the session of the file
\* at that path, or null when the file cannot be read
LoadSessionOfSummary(summary) ==
    LET on == CHOOSE on \in FilesOnDisk : on.filePath = summary.filePath
        content == ReadFile(on.file)
    IN  IF content.threw THEN Null
        ELSE [ id |-> MetadataId(ParseJsonlContent(content.value)),
               agentName |-> summary.agentName,
               filePath |-> summary.filePath,
               entries |-> LoadSessionContent(content.value).entries,
               stats |-> LoadSessionContent(content.value).stats,
               isDeleted |-> IsDeletedFile(on.file.name) ]

\* selectSession(summary), up to its await; openSessionEntries calls it with a
\* summary of the session list
SelectSessionStarts(summary) ==
    /\ nSelect < MaxSelections
    /\ isLoading' = TRUE
    /\ error' = Null
    /\ selecting' = Append(selecting, summary)
    /\ lastSelected' = summary.filePath
    /\ nSelect' = nSelect + 1
    /\ UNCHANGED <<agentsRoot, agents, sessionSummaries, pendingScan>>
    /\ UNCHANGED <<mergeVars, parseVars, viewVars, histogramVars, globalVars, sparkVars, navVars>>

\* the part of the k-th selectSession in flight after its await:
\* setCurrentSession and the finally
SelectSessionReturns(k) ==
    /\ k \in DOMAIN selecting
    /\ \E session \in {LoadSessionOfSummary(selecting[k])} :
          /\ currentSession' = session
          /\ filteredEntries' = FilteredEntries(EntriesOf(session), filterState,
                                                advancedFilterState)
    /\ isLoading' = FALSE
    /\ selecting' = RemoveAt(selecting, k)
    /\ UNCHANGED <<lastSelected, nSelect>>
    /\ UNCHANGED <<agentsRoot, agents, sessionSummaries, error, pendingScan>>
    /\ UNCHANGED <<sessionFile, filterState, advancedFilterState>>
    /\ UNCHANGED <<mergeVars, parseVars, histogramVars, globalVars, sparkVars, navVars>>

\* the hook is mounted on a directory whose every file can be read, and
\* loadData has run up to its await
SelectInit ==
    /\ agentsRoot \in { root \in AgentsRoots :
                          /\ root.listable
                          /\ \A on \in { d \in 1..Len(root.entries) : root.entries[d].isDirectory } :
                                /\ root.entries[on].sessions.listable
                                /\ \A f \in DOMAIN root.entries[on].sessions.entries :
                                      root.entries[on].sessions.entries[f].readable }
    /\ agents = <<>>
    /\ sessionSummaries = <<>>
    /\ isLoading = TRUE
    /\ error = Null
    /\ pendingScan = "mount"
    /\ selecting = <<>>
    /\ lastSelected = ""
    /\ nSelect = 0

SelectIdle ==
    /\ selecting = <<>>
    /\ lastSelected = ""
    /\ nSelect = 0

SelectNext ==
    \/ ScanReturns
    \/ RefreshMergeReturns
    \/ RefreshSessions
    \/ \E n \in DOMAIN sessionSummaries : SelectSessionStarts(sessionSummaries[n])
    \/ \E k \in DOMAIN selecting : SelectSessionReturns(k)

(***************************************************************************)
(* Properties of selectSession.                                            *)
(***************************************************************************)
\* C28: once every selectSession has returned, the session shown is the one
\* selected last, whichever load returned first.
C28_LastSelectedIsShown ==
    (selecting = <<>> /\ nSelect > 0) =>
        /\ currentSession # Null
        /\ currentSession.filePath = lastSelected

\* C29: isLoading is true whenever loadData, a refresh or a selectSession has
\* not reached the end of its finally.
C29_LoadingWhileInFlight ==
    (pendingScan # "none" \/ selecting # <<>>) => isLoading

(***************************************************************************)
(* App: the selection indices of the four lists.  The advanced filter is   *)
(* closed and the search box is not focused; the scope of the all-events   *)
(* view is global, so scopedAllEvents is allEvents.                        *)
(***************************************************************************)
PageStep == 20

NavKeys ==
    { [name |-> name, shift |-> FALSE] :
        name \in {"up", "k", "down", "j", "pageup", "pagedown", "g", "enter", "return",
                  "right"} }
    \cup { [name |-> "g", shift |-> TRUE] }

\* selectedAgentIndex >= 0 && selectedAgent
\*     ? sessions.filter((s) => s.agentName === selectedAgent.name) : sessions
FilteredSessions ==
    IF selectedAgentIndex >= 0 /\ selectedAgentIndex + 1 \in DOMAIN agents
    THEN SelectSeq(sessionSummaries,
                   LAMBDA s : s.agentName = agents[selectedAgentIndex + 1].name)
    ELSE sessionSummaries

\* the index the sidebar keys leave
AgentIndexAfter(key, i, length) ==
    IF key.name \in {"up", "k"} THEN Max(0, i - 1)
    ELSE IF key.name \in {"down", "j"} THEN Min(length - 1, i + 1)
    ELSE i

\* the index the keys of the session list leave
SessionIndexAfter(key, i, length) ==
    IF key.name \in {"up", "k"} THEN Max(0, i - 1)
    ELSE IF key.name \in {"down", "j"} THEN Min(length - 1, i + 1)
    ELSE IF key.name = "g" THEN 0
    ELSE IF key.shift /\ key.name = "g" THEN length - 1
    ELSE i

\* the index the keys of the entries view and of the all-events view leave
ListIndexAfter(key, i, length) ==
    IF key.name \in {"up", "k"} THEN Max(0, i - 1)
    ELSE IF key.name \in {"down", "j"} THEN Min(length - 1, i + 1)
    ELSE IF key.name = "pageup" THEN Max(0, i - PageStep)
    ELSE IF key.name = "pagedown" THEN Min(length - 1, i + PageStep)
    ELSE IF key.name = "g" THEN 0
    ELSE IF key.shift /\ key.name = "g" THEN length - 1
    ELSE i

\* the effect on filteredAllEvents.length: it runs when the length has changed
ClampedAllEventsIndex(i, oldLength, newLength) ==
    IF newLength # oldLength THEN Min(i, Max(0, newLength - 1)) ELSE i

\* openSessionEntries(summary, 0) with its selectSession, whose load returns
\* before the next key
OpenSessionEntries(summary) ==
    /\ \E session \in {LoadSessionOfSummary(summary)} :
          /\ currentSession' = session
          /\ filteredEntries' = FilteredEntries(EntriesOf(session), filterState,
                                                advancedFilterState)
    /\ isLoading' = FALSE
    /\ error' = Null
    /\ view' = "entries"
    /\ selectedEntryIndex' = 0
    /\ UNCHANGED <<focusPanel, selectedAgentIndex, selectedSessionIndex,
                   allEventsSelectedIndex>>
    /\ UNCHANGED <<agentsRoot, agents, sessionSummaries, pendingScan>>
    /\ UNCHANGED <<sessionFile, filterState, advancedFilterState>>
    /\ UNCHANGED <<mergeVars, parseVars, histogramVars, globalVars, sparkVars, selectVars>>

\* the handler of useKeyboard for a navigation key in the sessions view, with
\* the effect that resets the session index when the agent index changes
SessionsKeyPressed(key) ==
    /\ view = "sessions"
    /\ IF focusPanel = "sidebar"
       THEN /\ selectedAgentIndex' = AgentIndexAfter(key, selectedAgentIndex, Len(agents))
            /\ selectedSessionIndex' = IF selectedAgentIndex' # selectedAgentIndex
                                       THEN 0 ELSE selectedSessionIndex
            /\ focusPanel' = IF key.name \in {"enter", "return", "right"}
                             THEN "content" ELSE focusPanel
            /\ UNCHANGED <<view, selectedEntryIndex, allEventsSelectedIndex>>
            /\ UNCHANGED nonNavVars
       ELSE IF /\ key.name \in {"enter", "return"}
               /\ selectedSessionIndex + 1 \in DOMAIN FilteredSessions
            THEN OpenSessionEntries(FilteredSessions[selectedSessionIndex + 1])
            ELSE /\ selectedSessionIndex' = SessionIndexAfter(key, selectedSessionIndex,
                                                              Len(FilteredSessions))
                 /\ UNCHANGED <<view, focusPanel, selectedAgentIndex, selectedEntryIndex,
                                allEventsSelectedIndex>>
                 /\ UNCHANGED nonNavVars

\* the handler for a navigation key in the entries view
EntriesKeyPressed(key) ==
    /\ view = "entries"
    /\ selectedEntryIndex' = ListIndexAfter(key, selectedEntryIndex, Len(filteredEntries))
    /\ UNCHANGED <<view, focusPanel, selectedAgentIndex, selectedSessionIndex,
                   allEventsSelectedIndex>>
    /\ UNCHANGED nonNavVars

\* sessions.find(...) of the event under the cursor, as a set of at most one
SummaryOfEvent(event) ==
    LET found == SelectSeq(sessionSummaries,
                           LAMBDA s : /\ s.agentName = event.agentName
                                      /\ s.filePath = event.sessionFilePath)
    IN  IF found = <<>> THEN {} ELSE {found[1]}

\* the handler for a navigation key in the all-events view
AllEventsKeyPressed(key) ==
    /\ view = "all-events"
    /\ IF /\ key.name \in {"enter", "return"}
          /\ allEventsSelectedIndex + 1 \in DOMAIN filteredAllEvents
          /\ SummaryOfEvent(filteredAllEvents[allEventsSelectedIndex + 1]) # {}
       THEN \E summary \in SummaryOfEvent(filteredAllEvents[allEventsSelectedIndex + 1]) :
               OpenSessionEntries(summary)
       ELSE /\ allEventsSelectedIndex' = ListIndexAfter(key, allEventsSelectedIndex,
                                                        Len(filteredAllEvents))
            /\ UNCHANGED <<view, focusPanel, selectedAgentIndex, selectedSessionIndex,
                           selectedEntryIndex>>
            /\ UNCHANGED nonNavVars

\* the tab key
TabPressed ==
    /\ focusPanel' = IF focusPanel = "sidebar" THEN "content" ELSE "sidebar"
    /\ UNCHANGED <<view, selectedAgentIndex, selectedSessionIndex, selectedEntryIndex,
                   allEventsSelectedIndex>>
    /\ UNCHANGED nonNavVars

\* the a key in the sessions view
OpenAllEvents ==
    /\ view = "sessions"
    /\ view' = "all-events"
    /\ allEventsSelectedIndex' = 0
    /\ UNCHANGED <<focusPanel, selectedAgentIndex, selectedSessionIndex, selectedEntryIndex>>
    /\ UNCHANGED nonNavVars

\* the Sessions breadcrumb
GoToSessions ==
    /\ view # "sessions"
    /\ view' = "sessions"
    /\ UNCHANGED <<focusPanel, selectedAgentIndex, selectedSessionIndex, selectedEntryIndex,
                   allEventsSelectedIndex>>
    /\ UNCHANGED nonNavVars

\* the t key in the entries view
EntryTypeKeyPressed ==
    /\ view = "entries"
    /\ CycleEntryType

\* a pass of preloadAllEvents publishes its events: scopedAllEvents and
\* filteredAllEvents follow, and the effect on the length of the latter runs
AllEventsPublished(events) ==
    /\ sessionSummaries # <<>>
    /\ scopedAllEvents' = events
    /\ filteredAllEvents' = FilteredAllEvents(events, allEventsFilter, now)
    /\ allEventsSelectedIndex' = ClampedAllEventsIndex(allEventsSelectedIndex,
                                                       Len(filteredAllEvents),
                                                       Len(filteredAllEvents'))
    /\ UNCHANGED allEventsFilter
    /\ UNCHANGED <<view, focusPanel, selectedAgentIndex, selectedSessionIndex,
                   selectedEntryIndex>>
    /\ UNCHANGED <<mergeVars, parseVars, viewVars, histogramVars, scanVars, sparkVars,
                   selectVars>>

\* the all-events filter is set in the advanced filter, and the effect on the
\* length of filteredAllEvents runs
AllEventsFilterChanged(filter) ==
    /\ allEventsFilter' = filter
    /\ filteredAllEvents' = FilteredAllEvents(scopedAllEvents, filter, now)
    /\ allEventsSelectedIndex' = ClampedAllEventsIndex(allEventsSelectedIndex,
                                                       Len(filteredAllEvents),
                                                       Len(filteredAllEvents'))
    /\ UNCHANGED scopedAllEvents
    /\ UNCHANGED <<view, focusPanel, selectedAgentIndex, selectedSessionIndex,
                   selectedEntryIndex>>
    /\ UNCHANGED <<mergeVars, parseVars, viewVars, histogramVars, scanVars, sparkVars,
                   selectVars>>

\* the directories whose files can all be read, with the sessions directories
\* either all listable or none
NavAgentsRoots ==
    { root \in AgentsRoots :
        /\ root.listable
        /\ root.entries[1].sessions.listable = root.entries[3].sessions.listable
        /\ \A f \in DOMAIN root.entries[1].sessions.entries :
              root.entries[1].sessions.entries[f].readable
        /\ \A f \in DOMAIN root.entries[3].sessions.entries :
              root.entries[3].sessions.entries[f].readable
        /\ root.entries[1].sessions.entries[1].lines
               = <<JsonLine(ModelChangeLine), JsonLine(ModelOnlyLine), BlankLine("")>> }

NavEventLists == { <<>>, SubSeq(GlobalEventPool, 1, 2) }

NavFilters ==
    { DefaultAllEventsFilter, [DefaultAllEventsFilter EXCEPT !.onlyErrors = TRUE] }

\* the app is mounted and loadData has run up to its await
NavInit ==
    /\ agentsRoot \in NavAgentsRoots
    /\ agents = <<>>
    /\ sessionSummaries = <<>>
    /\ isLoading = TRUE
    /\ error = Null
    /\ pendingScan = "mount"
    /\ view = "sessions"
    /\ focusPanel = "content"
    /\ selectedAgentIndex = 0
    /\ selectedSessionIndex = 0
    /\ selectedEntryIndex = 0
    /\ allEventsSelectedIndex = 0

NavIdle ==
    /\ view = "sessions"
    /\ focusPanel = "content"
    /\ selectedAgentIndex = 0
    /\ selectedSessionIndex = 0
    /\ selectedEntryIndex = 0
    /\ allEventsSelectedIndex = 0

NavNext ==
    \/ \E key \in NavKeys : SessionsKeyPressed(key)
    \/ \E key \in NavKeys : EntriesKeyPressed(key)
    \/ \E key \in NavKeys : AllEventsKeyPressed(key)
    \/ TabPressed
    \/ OpenAllEvents
    \/ GoToSessions
    \/ EntryTypeKeyPressed
    \/ \E events \in NavEventLists : AllEventsPublished(events)
    \/ \E filter \in NavFilters : AllEventsFilterChanged(filter)
    \/ ScanReturns
    \/ RefreshMergeReturns
    \/ RefreshSessions

(***************************************************************************)
(* Properties of the selection indices.                                    *)
(***************************************************************************)
WithinBounds(index, length) == 0 <= index /\ index <= Max(0, length - 1)

\* C30: each selection index stays within the bounds of the list it indexes,
\* 0 <= index <= max(0, length - 1).
C30_SelectionIndicesWithinBounds ==
    /\ WithinBounds(selectedAgentIndex, Len(agents))
    /\ WithinBounds(selectedSessionIndex, Len(FilteredSessions))
    /\ WithinBounds(selectedEntryIndex, Len(filteredEntries))
    /\ WithinBounds(allEventsSelectedIndex, Len(filteredAllEvents))

(***************************************************************************)
(* The specifications: one per part of the program, the other parts idle.  *)
(***************************************************************************)
InitMerge == MergeInit /\ ParseIdle /\ ViewIdle /\ HistogramIdle /\ GlobalIdle /\ ScanIdle /\ SparkIdle /\ SelectIdle /\ NavIdle

SpecMerge == InitMerge /\ [][MergeNext]_vars

\* every awaited loadSession returns
SpecMergeFair == SpecMerge /\ WF_vars(\E k \in 1..Len(passes) : LoadReturns(k))

InitParse == ParseInit /\ MergeIdle /\ ViewIdle /\ HistogramIdle /\ GlobalIdle /\ ScanIdle /\ SparkIdle /\ SelectIdle /\ NavIdle

SpecParse == InitParse /\ [][ParseNext]_vars

InitView == ViewInit /\ MergeIdle /\ ParseIdle /\ HistogramIdle /\ GlobalIdle /\ ScanIdle /\ SparkIdle /\ SelectIdle /\ NavIdle

SpecView == InitView /\ [][ViewNext]_vars

InitHistogram == HistogramInit /\ MergeIdle /\ ParseIdle /\ ViewIdle /\ GlobalIdle /\ ScanIdle /\ SparkIdle /\ SelectIdle /\ NavIdle

SpecHistogram == InitHistogram /\ [][HistogramNext]_vars

InitGlobal == GlobalInit /\ MergeIdle /\ ParseIdle /\ ViewIdle /\ HistogramIdle /\ ScanIdle /\ SparkIdle /\ SelectIdle /\ NavIdle

SpecGlobal == InitGlobal /\ [][GlobalNext]_vars

InitWindow == WindowInit /\ HookIdle /\ ParseIdle /\ ViewIdle /\ HistogramIdle /\ ScanIdle /\ SparkIdle /\ SelectIdle /\ NavIdle

SpecWindow == InitWindow /\ [][WindowNext]_vars

InitSpark == SparkInit /\ MergeIdle /\ ParseIdle /\ ViewIdle /\ HistogramIdle /\ GlobalIdle /\ ScanIdle /\ SelectIdle /\ NavIdle

SpecSpark == InitSpark /\ [][SparkNext]_vars

InitScan == ScanInit /\ MergeIdle /\ ParseIdle /\ ViewIdle /\ HistogramIdle /\ GlobalIdle /\ SparkIdle /\ SelectIdle /\ NavIdle

SpecScan == InitScan /\ [][ScanNext]_vars

InitSelect == SelectInit /\ MergeIdle /\ ParseIdle /\ ViewIdle /\ HistogramIdle /\ GlobalIdle /\ SparkIdle /\ NavIdle

SpecSelect == InitSelect /\ [][SelectNext]_vars

InitNav == NavInit /\ MergeIdle /\ ParseIdle /\ ViewIdle /\ HistogramIdle /\ GlobalIdle /\ SparkIdle /\ SelectIdle

SpecNav == InitNav /\ [][NavNext]_vars

====
